---- MODULE Spec2Model ----
(***************************************************************************)
(* HamArc: a Hamming-protected file archiver.                              *)
(*                                                                         *)
(* The module models                                                       *)
(*   - the Hamming block and stream codec (HammingCodec),                  *)
(*   - the archive container (header serialisation, sizes, offsets),       *)
(*   - the archive operations Create / List / Extract / Append / Delete /  *)
(*     Concatenate acting on a small file system.                          *)
(*                                                                         *)
(* Bytes are integers 0..255, files are sequences of bytes, names and      *)
(* paths are sequences of character codes.  Codewords are integers; the    *)
(* command line admits at most 16 + 8 = 24 codeword bits, so the 32-bit    *)
(* shifts of the source never overflow and are modelled without wrapping.  *)
(***************************************************************************)
EXTENDS Integers, Sequences, FiniteSets, TLC

(***************************************************************************)
(* Bit helpers (the C++ operators >>, &, |=, ^= on unsigned integers).     *)
(***************************************************************************)
BitAt(x, i) == (x \div (2 ^ i)) % 2

SetBit(x, i) == IF BitAt(x, i) = 1 THEN x ELSE x + 2 ^ i

XorBit(x, i) == IF BitAt(x, i) = 1 THEN x - 2 ^ i ELSE x + 2 ^ i

(***************************************************************************)
(* HammingCodec                                                            *)
(***************************************************************************)
HammingCodec(k, r) ==
  [data_bits_ |-> k, parity_bits_ |-> r, total_bits_ |-> k + r]

\* (bit_position & (bit_position - 1)) == 0 for a position in 1..24: the
\* position is a power of two.
IsParityPosition(bit_position) == bit_position \in {1, 2, 4, 8, 16}

\* bit_index & parity_position, for parity_position a power of two.
Covers(parity_position, bit_index) ==
  (bit_index \div parity_position) % 2 = 1

\* The inner loop shared by CalculateSyndrome and EncodeBlock: XOR of the
\* codeword bits at every position bit_index in 1..total_bits that has
\* parity_position set.
ParityValue(codeword, parity_position, total_bits) ==
  Cardinality({bit_index \in 1..total_bits :
                 /\ Covers(parity_position, bit_index)
                 /\ BitAt(codeword, bit_index - 1) = 1}) % 2

RECURSIVE SyndromeLoop(_, _, _, _)
SyndromeLoop(codeword, total_bits, parity_position, syndrome) ==
  IF parity_position > total_bits THEN syndrome
  ELSE SyndromeLoop(codeword, total_bits, 2 * parity_position,
                    IF ParityValue(codeword, parity_position, total_bits) = 1
                    THEN syndrome + parity_position
                    ELSE syndrome)

CalculateSyndrome(codeword, total_bits) ==
  SyndromeLoop(codeword, total_bits, 1, 0)

RECURSIVE ExtractLoop(_, _, _, _, _)
ExtractLoop(codeword, total_bits, bit_position, data_index, data_value) ==
  IF bit_position > total_bits THEN data_value
  ELSE IF IsParityPosition(bit_position)
       THEN ExtractLoop(codeword, total_bits, bit_position + 1,
                        data_index, data_value)
       ELSE ExtractLoop(codeword, total_bits, bit_position + 1,
                        data_index + 1,
                        IF BitAt(codeword, bit_position - 1) = 1
                        THEN SetBit(data_value, data_index)
                        ELSE data_value)

ExtractDataBits(codeword, total_bits) ==
  ExtractLoop(codeword, total_bits, 1, 0, 0)

\* A first loop that does not skip the parity positions: data bit i goes to
\* position i + 1.
RECURSIVE PlaceDataNoSkip(_, _, _, _, _)
PlaceDataNoSkip(data_value, total_bits, bit_position, data_index, codeword) ==
  IF bit_position > total_bits THEN codeword
  ELSE PlaceDataNoSkip(data_value, total_bits, bit_position + 1,
                       data_index + 1,
                       IF BitAt(data_value, data_index) = 1
                       THEN SetBit(codeword, bit_position - 1)
                       ELSE codeword)

\* First loop of EncodeBlock: data bits go to the non-parity positions.
RECURSIVE PlaceDataLoop(_, _, _, _, _)
PlaceDataLoop(data_value, total_bits, bit_position, data_index, codeword) ==
  IF bit_position > total_bits THEN codeword
  ELSE IF IsParityPosition(bit_position)
       THEN PlaceDataLoop(data_value, total_bits, bit_position + 1,
                          data_index, codeword)
       ELSE PlaceDataLoop(data_value, total_bits, bit_position + 1,
                          data_index + 1,
                          IF BitAt(data_value, data_index) = 1
                          THEN SetBit(codeword, bit_position - 1)
                          ELSE codeword)

\* Second loop of EncodeBlock: each parity position gets the parity of the
\* positions it covers.
RECURSIVE FillParityLoop(_, _, _)
FillParityLoop(codeword, total_bits, parity_position) ==
  IF parity_position > total_bits THEN codeword
  ELSE FillParityLoop(
         IF ParityValue(codeword, parity_position, total_bits) = 1
         THEN SetBit(codeword, parity_position - 1)
         ELSE codeword,
         total_bits, 2 * parity_position)

EncodeBlock(c, data_value) ==
  FillParityLoop(PlaceDataLoop(data_value, c.total_bits_, 1, 0, 0),
                 c.total_bits_, 1)

\* The second half of DecodeBlock: unless an error is already flagged the
\* syndrome is computed again, and a non-zero value flags an error; the
\* data bits are extracted when no error is flagged.
VerifyAndExtract(c, codeword, has_error) ==
  IF has_error \/ CalculateSyndrome(codeword, c.total_bits_) # 0
  THEN [data |-> 0, has_error |-> TRUE]
  ELSE [data |-> ExtractDataBits(codeword, c.total_bits_),
        has_error |-> FALSE]

\* A first half that leaves the codeword as received and goes on to the
\* verification.
CorrectBlockUnrepaired(c, codeword, syndrome) ==
  VerifyAndExtract(c, codeword, syndrome # 0 /\ syndrome > c.total_bits_)

\* A correction that flips bit `syndrome` instead of bit `syndrome - 1`.
CorrectBlockOffByOne(c, codeword, syndrome) ==
  VerifyAndExtract(c,
                   IF syndrome # 0 /\ syndrome <= c.total_bits_
                   THEN XorBit(codeword, syndrome) ELSE codeword,
                   syndrome # 0 /\ syndrome > c.total_bits_)

\* The first half of DecodeBlock: a syndrome in 1..total_bits_ flips that
\* position, a syndrome beyond total_bits_ flags an error.
CorrectBlock(c, codeword, syndrome) ==
  VerifyAndExtract(c,
                   IF syndrome # 0 /\ syndrome <= c.total_bits_
                   THEN XorBit(codeword, syndrome - 1) ELSE codeword,
                   syndrome # 0 /\ syndrome > c.total_bits_)

DecodeBlock(c, codeword) ==
  CorrectBlock(c, codeword, CalculateSyndrome(codeword, c.total_bits_))

(***************************************************************************)
(* Stream codec.  The streaming loops of the source move one bit at a time *)
(* through a pending byte (the writer: out_byte / out_bit_count, the       *)
(* reader: in_byte / in_bits_available) and a pending block.  The model    *)
(* states what those loops compute, indexed by bit number: bit i of a      *)
(* stream is bit i % 8 of its byte i \div 8 (least significant bit first). *)
(***************************************************************************)
\* The unsigned integer with exactly the bits of S set (the |= accumulation
\* of bits into a zeroed byte, block or codeword).
RECURSIVE BitsToInt(_)
BitsToInt(S) ==
  IF S = {} THEN 0
  ELSE LET i == CHOOSE x \in S : TRUE
       IN 2 ^ i + BitsToInt(S \ {i})

Max(S) == CHOOSE x \in S : \A y \in S : y <= x

Min(S) == CHOOSE x \in S : \A y \in S : x <= y

StreamBit(bytes, i) == BitAt(bytes[(i \div 8) + 1], i % 8)

\* WriteDecodedBitToStream and the put loop of EncodeAndWriteBlock: the
\* bytes put on the stream after `count` bits were pushed, a byte each time
\* the fill count reaches 8.  bit[i] is the i-th bit pushed (from 0).
BytesPut(bit, count) ==
  [b \in 1..Cardinality({q \in 1..count : q % 8 = 0}) |->
     BitsToInt({t \in 0..7 : bit[8 * (b - 1) + t] = 1})]

\* A flush that puts the pending byte on the stream even when it holds no
\* bit (the `output_bits_in_byte > 0` test left out).
FlushOutputByteUnguarded(bit, count) ==
  Append(BytesPut(bit, count),
         BitsToInt({t \in 0..(count % 8) - 1 :
                      bit[8 * (count \div 8) + t] = 1}))

\* FlushOutputByte after `count` pushed bits: the pending byte, if it holds
\* any bit, follows with its upper bits zero.
FlushOutputByte(bit, count) ==
  IF count % 8 = 0 THEN BytesPut(bit, count)
  ELSE Append(BytesPut(bit, count),
              BitsToInt({t \in 0..(count % 8) - 1 :
                           bit[8 * (count \div 8) + t] = 1}))

\* The blocks EncodeStream hands to EncodeAndWriteBlock: one each time
\* data_block_bits reaches data_bits_, and after end of input the pending
\* block if it holds any bit (its missing bits are zero).
DataBlocks(c, bytes) ==
  LET nbits == 8 * Len(bytes)
      full == Cardinality({i \in 1..nbits : i % c.data_bits_ = 0})
      count == IF nbits % c.data_bits_ > 0 THEN full + 1 ELSE full
  IN [j \in 1..count |->
        BitsToInt({t \in 0..c.data_bits_ - 1 :
                     /\ (j - 1) * c.data_bits_ + t < nbits
                     /\ StreamBit(bytes, (j - 1) * c.data_bits_ + t) = 1})]

\* The put loop of EncodeAndWriteBlock over all blocks: the total_bits_
\* bits of each codeword are pushed, lowest first, and the pending byte is
\* flushed at the end.
WriteCodewords(c, codewords) ==
  FlushOutputByte([q \in 0..Len(codewords) * c.total_bits_ - 1 |->
                     BitAt(codewords[(q \div c.total_bits_) + 1],
                           q % c.total_bits_)],
                  Len(codewords) * c.total_bits_)

EncodeBlocks(c, blocks) ==
  [j \in 1..Len(blocks) |-> EncodeBlock(c, blocks[j])]

\* EncodeStream on an input stream holding `bytes`: the bytes written.
EncodeStream(c, bytes) ==
  WriteCodewords(c, EncodeBlocks(c, DataBlocks(c, bytes)))

\* The codewords the loop of DecodeStream collects through
\* ReadNextEncodedBit, total_bits_ bits each, and what DecodeBlock returns
\* for them.
DecodeBlocks(c, in, readable) ==
  [j \in 1..readable |->
     DecodeBlock(c, BitsToInt({t \in 0..c.total_bits_ - 1 :
                     StreamBit(in, (j - 1) * c.total_bits_ + t) = 1}))]

\* The data bits pushed through WriteDecodedBitToStream for the first
\* `good` decoded blocks: data_bits_ bits of each, of the last one only what
\* original_bits leaves.
DecodedBits(c, decoded, bits_written) ==
  [m \in 0..bits_written - 1 |->
     BitAt(decoded[(m \div c.data_bits_) + 1].data, m % c.data_bits_)]

BitsWritten(c, good, original_bits) ==
  IF good * c.data_bits_ > original_bits
  THEN original_bits ELSE good * c.data_bits_

\* The outcome of DecodeStream given what DecodeBlock returned for the
\* codewords that could be read: the loop stops at the first codeword
\* flagged, or when the stream has no byte left for the next codeword.
DecodeOutcome(c, decoded, flagged, codeword_count, original_bits) ==
  IF flagged # {}
  THEN [ok |-> FALSE,
        out |-> BytesPut(
                  DecodedBits(c, decoded,
                    BitsWritten(c, Min(flagged) - 1, original_bits)),
                  BitsWritten(c, Min(flagged) - 1, original_bits)),
        decode_error |-> TRUE]
  ELSE IF Len(decoded) < codeword_count
  THEN [ok |-> FALSE,
        out |-> BytesPut(DecodedBits(c, decoded,
                           BitsWritten(c, Len(decoded), original_bits)),
                         BitsWritten(c, Len(decoded), original_bits)),
        decode_error |-> FALSE]
  ELSE [ok |-> TRUE,
        out |-> FlushOutputByte(
                  DecodedBits(c, decoded,
                    BitsWritten(c, Len(decoded), original_bits)),
                  BitsWritten(c, Len(decoded), original_bits)),
        decode_error |-> FALSE]

\* A loop that does not look at the flag DecodeBlock returns.
FlagsIgnored(decoded) == {}

FlaggedBlocks(decoded) == {j \in 1..Len(decoded) : decoded[j].has_error}

DecodeReadable(c, decoded, codeword_count, original_bits) ==
  DecodeOutcome(c, decoded, FlaggedBlocks(decoded), codeword_count,
                original_bits)

\* DecodeStream on an input stream positioned at the first byte of `in`:
\* ok, the bytes put on the output stream, and whether the failure was the
\* "uncorrectable data corruption" report.
DecodeStream(c, in, original_size) ==
  LET original_bits == original_size * 8
      codeword_count == (original_bits + c.data_bits_ - 1) \div c.data_bits_
      total_code_bits == codeword_count * c.total_bits_
      readable == IF 8 * Len(in) < total_code_bits
                  THEN (8 * Len(in)) \div c.total_bits_
                  ELSE codeword_count
  IN IF original_bits = 0
     THEN [ok |-> TRUE, out |-> <<>>, decode_error |-> FALSE]
     ELSE DecodeReadable(c, DecodeBlocks(c, in, readable), codeword_count,
                         original_bits)

(***************************************************************************)
(* Archive container: entries, sizes, offsets, header (de)serialisation.   *)
(***************************************************************************)
kBufferSize == 8192

\* FileEntry
FileEntry(name, source_path, original_size, encoded_size, offset) ==
  [name |-> name, source_path |-> source_path,
   original_size |-> original_size, encoded_size |-> encoded_size,
   offset |-> offset]

CalculateEncodedSize(c, original_size) ==
  LET original_bits == original_size * 8
      codeword_bits == c.data_bits_ + c.parity_bits_
      codeword_count == (original_bits + c.data_bits_ - 1) \div c.data_bits_
      total_code_bits == codeword_count * codeword_bits
  IN (total_code_bits + 7) \div 8

RECURSIVE CalculateHeaderSizeFrom(_, _)
CalculateHeaderSizeFrom(entries, i) ==
  IF i > Len(entries) THEN 0
  ELSE 2 + Len(entries[i].name) + 8 + 8 + 8
       + CalculateHeaderSizeFrom(entries, i + 1)

CalculateHeaderSize(entries) == 3 + 4 + CalculateHeaderSizeFrom(entries, 1)

\* An assignment that gives every entry the offset of the first.
AssignOffsetsFlat(entries, i, current_offset) ==
  [j \in 1..Len(entries) |-> [entries[j] EXCEPT !.offset = current_offset]]

RECURSIVE AssignOffsetsFrom(_, _, _)
AssignOffsetsFrom(entries, i, current_offset) ==
  IF i > Len(entries) THEN entries
  ELSE AssignOffsetsFrom([entries EXCEPT ![i].offset = current_offset],
                         i + 1, current_offset + entries[i].encoded_size)

AssignOffsets(entries, header_size) ==
  AssignOffsetsFrom(entries, 1, header_size)

\* Little-endian image of an unsigned integer in `width` bytes (the object
\* representation written by out.write on the supported platforms); the
\* value is truncated to the width, as the static_casts do.
RECURSIVE LittleEndian(_, _)
LittleEndian(value, width) ==
  IF width = 0 THEN <<>>
  ELSE <<value % 256>> \o LittleEndian(value \div 256, width - 1)

RECURSIVE FromLittleEndian(_)
FromLittleEndian(bytes) ==
  IF bytes = <<>> THEN 0
  ELSE bytes[1] + 256 * FromLittleEndian(Tail(bytes))

Signature == <<72, 65, 70>>   \* "HAF"

WriteEntry(entry) ==
  LET name_length == Len(entry.name) % 65536
  IN LittleEndian(name_length, 2)
     \o SubSeq(entry.name, 1, name_length)
     \o LittleEndian(entry.original_size, 8)
     \o LittleEndian(entry.encoded_size, 8)
     \o LittleEndian(entry.offset, 8)

RECURSIVE WriteEntriesFrom(_, _)
WriteEntriesFrom(entries, i) ==
  IF i > Len(entries) THEN <<>>
  ELSE WriteEntry(entries[i]) \o WriteEntriesFrom(entries, i + 1)

\* The bytes WriteArchiveHeader puts on the stream.
WriteArchiveHeader(entries) ==
  Signature \o LittleEndian(Len(entries), 4) \o WriteEntriesFrom(entries, 1)

\* in.read of `count` bytes at position pos (0-based) of `bytes`.
CanRead(bytes, pos, count) == pos + count <= Len(bytes)

ReadBytes(bytes, pos, count) == SubSeq(bytes, pos + 1, pos + count)

RECURSIVE ReadEntriesLoop(_, _, _, _)
ReadEntriesLoop(bytes, pos, remaining, entries) ==
  IF remaining = 0 THEN [ok |-> TRUE, entries |-> entries, pos |-> pos]
  ELSE IF ~CanRead(bytes, pos, 2)
  THEN [ok |-> FALSE, entries |-> entries, pos |-> pos]
  ELSE
    LET name_length == FromLittleEndian(ReadBytes(bytes, pos, 2))
        meta == pos + 2 + name_length
    IN IF ~CanRead(bytes, pos + 2, name_length) \/ ~CanRead(bytes, meta, 24)
       THEN [ok |-> FALSE, entries |-> entries, pos |-> pos]
       ELSE ReadEntriesLoop(bytes, meta + 24, remaining - 1,
              Append(entries,
                FileEntry(ReadBytes(bytes, pos + 2, name_length), <<>>,
                          FromLittleEndian(ReadBytes(bytes, meta, 8)),
                          FromLittleEndian(ReadBytes(bytes, meta + 8, 8)),
                          FromLittleEndian(ReadBytes(bytes, meta + 16, 8)))))

\* A reader that takes any three bytes for the signature.
ReadArchiveHeaderAnySignature(bytes) ==
  IF ~CanRead(bytes, 0, 3)
  THEN [ok |-> FALSE, entries |-> <<>>, pos |-> 0]
  ELSE IF ~CanRead(bytes, 3, 4)
  THEN [ok |-> FALSE, entries |-> <<>>, pos |-> 3]
  ELSE ReadEntriesLoop(bytes, 7, FromLittleEndian(ReadBytes(bytes, 3, 4)),
                       <<>>)

\* ReadArchiveHeader on a stream holding `bytes`: ok, the entries, and the
\* stream position after the header.
ReadArchiveHeader(bytes) ==
  IF ~CanRead(bytes, 0, 3) \/ ReadBytes(bytes, 0, 3) # Signature
  THEN [ok |-> FALSE, entries |-> <<>>, pos |-> 0]
  ELSE IF ~CanRead(bytes, 3, 4)
  THEN [ok |-> FALSE, entries |-> <<>>, pos |-> 3]
  ELSE ReadEntriesLoop(bytes, 7, FromLittleEndian(ReadBytes(bytes, 3, 4)),
                       <<>>)

(***************************************************************************)
(* File system: regular files (path -> bytes) and directories.  Paths and  *)
(* names are sequences of character codes; 47 is the separator '/'.        *)
(***************************************************************************)
Slash == 47

IsRegularFile(disk, path) == path \in DOMAIN disk.files

IsDirectory(disk, path) == path \in disk.dirs

Exists(disk, path) == IsRegularFile(disk, path) \/ IsDirectory(disk, path)

\* std::ofstream(path, binary | trunc) followed by writing `bytes`.
WriteFile(disk, path, bytes) ==
  [disk EXCEPT !.files = (path :> bytes) @@ disk.files]

\* fs::remove of a regular file (no effect when it does not exist).
RemoveFile(disk, path) ==
  [disk EXCEPT !.files = [q \in (DOMAIN disk.files) \ {path} |->
                            disk.files[q]]]

\* fs::rename(from, to) of a regular file.
RenameFile(disk, from, to) ==
  RemoveFile(WriteFile(disk, to, disk.files[from]), from)

SlashPositions(path) == {i \in 1..Len(path) : path[i] = Slash}

\* fs::path::filename()
Filename(path) ==
  IF SlashPositions(path) = {} THEN path
  ELSE SubSeq(path, Max(SlashPositions(path)) + 1, Len(path))

\* fs::path::has_parent_path() and parent_path()
HasParentPath(path) == SlashPositions(path) # {}

ParentPath(path) ==
  IF Max(SlashPositions(path)) = 1 THEN <<Slash>>
  ELSE SubSeq(path, 1, Max(SlashPositions(path)) - 1)

\* The directories fs::create_directories(dir) has to provide: dir and each
\* of its ancestors.
Ancestors(dir) ==
  {dir} \cup {SubSeq(dir, 1, i - 1) : i \in SlashPositions(dir) \ {1}}

CanCreateDirectories(disk, dir) ==
  \A a \in Ancestors(dir) : ~IsRegularFile(disk, a)

CreateDirectories(disk, dir) ==
  [disk EXCEPT !.dirs = disk.dirs \cup Ancestors(dir)]

TempPath(archive_path) == archive_path \o <<46, 116, 109, 112>>   \* ".tmp"

\* A value computed once and used under a name (a local variable).
Bind(value, Body(_)) == Body(value)

\* Result of one Archiver operation: the return value, the file system it
\* leaves, the lines printed on standard output, and the failure reported.
Result(ok, disk, out, err) ==
  [ok |-> ok, disk |-> disk, out |-> out, err |-> err]

(***************************************************************************)
(* Helpers of the archiver.                                                *)
(***************************************************************************)
RECURSIVE CollectLoop(_, _, _, _, _)
CollectLoop(disk, input_files, c, i, out_entries) ==
  IF i > Len(input_files) THEN [ok |-> TRUE, entries |-> out_entries]
  ELSE
    LET path == input_files[i]
    IN IF ~Exists(disk, path) \/ IsDirectory(disk, path)
       THEN [ok |-> FALSE, entries |-> out_entries]
       ELSE LET original_size == Len(disk.files[path])
            IN CollectLoop(disk, input_files, c, i + 1,
                 Append(out_entries,
                   FileEntry(Filename(path), path, original_size,
                             CalculateEncodedSize(c, original_size), 0)))

CollectNewEntries(disk, input_files, c) ==
  CollectLoop(disk, input_files, c, 1, <<>>)

\* EncodeFileToArchive for each entry in turn: the bytes appended to the
\* archive stream.
RECURSIVE EncodeFilesFrom(_, _, _, _)
EncodeFilesFrom(disk, entries, c, i) ==
  IF i > Len(entries) THEN <<>>
  ELSE EncodeStream(c, disk.files[entries[i].source_path])
       \o EncodeFilesFrom(disk, entries, c, i + 1)

CanOpenAll(disk, entries) ==
  \A i \in 1..Len(entries) : IsRegularFile(disk, entries[i].source_path)

\* CopyEntryData: seek to entry.offset and copy encoded_size bytes in
\* chunks of kBufferSize; a short read fails the copy after the complete
\* chunks before it were written.
CanCopyEntry(bytes, entry) == entry.offset + entry.encoded_size <= Len(bytes)

\* A copy that does not seek to entry.offset and reads from the start of
\* the archive stream.
CopyEntryDataNoSeek(bytes, entry) == SubSeq(bytes, 1, entry.encoded_size)

CopyEntryData(bytes, entry) ==
  IF CanCopyEntry(bytes, entry)
  THEN SubSeq(bytes, entry.offset + 1, entry.offset + entry.encoded_size)
  ELSE LET avail == IF Len(bytes) > entry.offset
                    THEN Len(bytes) - entry.offset ELSE 0
           whole == (avail \div kBufferSize) * kBufferSize
       IN SubSeq(bytes, entry.offset + 1, entry.offset + whole)

\* A copy that reads each entry at the offset it is given in the rebuilt
\* archive, not at the offset recorded in the archive it is read from.
RECURSIVE CopyEntriesNewOffsets(_, _, _)
CopyEntriesNewOffsets(bytes, entries, i) ==
  IF i > Len(entries) THEN <<>>
  ELSE CopyEntryData(bytes,
         AssignOffsets(entries, CalculateHeaderSize(entries))[i])
       \o CopyEntriesNewOffsets(bytes, entries, i + 1)

RECURSIVE CopyEntriesFrom(_, _, _)
CopyEntriesFrom(bytes, entries, i) ==
  IF i > Len(entries) THEN <<>>
  ELSE CopyEntryData(bytes, entries[i]) \o CopyEntriesFrom(bytes, entries, i + 1)

CanCopyAll(bytes, entries) ==
  \A i \in 1..Len(entries) : CanCopyEntry(bytes, entries[i])

\* FindEntriesByNames: for each requested name in order, every entry with
\* that name in header order; fails at the first name without an entry.
RECURSIVE FindLoop(_, _, _, _)
FindLoop(all_entries, requested_names, i, out_entries) ==
  IF i > Len(requested_names) THEN [ok |-> TRUE, entries |-> out_entries]
  ELSE
    LET matches == SelectSeq(all_entries,
                             LAMBDA e : e.name = requested_names[i])
    IN IF matches = <<>>
       THEN [ok |-> FALSE, entries |-> out_entries]
       ELSE FindLoop(all_entries, requested_names, i + 1,
                     out_entries \o matches)

\* A lookup that skips the names it does not find instead of failing.
FindEntriesByNamesLenient(all_entries, requested_names) ==
  [ok |-> TRUE,
   entries |-> FindLoop(all_entries,
                        SelectSeq(requested_names,
                                  LAMBDA n : \E j \in 1..Len(all_entries) :
                                               all_entries[j].name = n),
                        1, <<>>).entries]

FindEntriesByNames(all_entries, requested_names) ==
  FindLoop(all_entries, requested_names, 1, <<>>)

EnsureParentDirectoryExists(disk, path) ==
  IF ~HasParentPath(path) THEN [ok |-> TRUE, disk |-> disk]
  ELSE IF CanCreateDirectories(disk, ParentPath(path))
       THEN [ok |-> TRUE, disk |-> CreateDirectories(disk, ParentPath(path))]
       ELSE [ok |-> FALSE, disk |-> disk]

(***************************************************************************)
(* Archiver operations.  Each takes the file system, the archive path, its *)
(* argument list, the codec built from the Hamming options, and the        *)
(* environment failure (if any) that strikes during the call:              *)
(*   "open"          the output (archive, temp or extracted) file cannot   *)
(*                   be opened for writing,                                *)
(*   "header_write"  the stream is bad after WriteArchiveHeader,           *)
(*   "copy"          CopyEntryData cannot write to the temp file,          *)
(*   "encode"        EncodeStream cannot write its output,                 *)
(*   "rename"        fs::rename reports an error.                          *)
(***************************************************************************)
NoFault == "none"

Create(disk, archive_path, input_files, c, fault) ==
  Bind(EnsureParentDirectoryExists(disk, archive_path), LAMBDA mk :
    IF ~mk.ok THEN Result(FALSE, disk, <<>>, "mkdir")
    ELSE IF fault = "open" \/ IsDirectory(mk.disk, archive_path)
    THEN Result(FALSE, mk.disk, <<>>, "open")
    ELSE
      Bind(WriteFile(mk.disk, archive_path, <<>>), LAMBDA opened :
      Bind(CollectNewEntries(opened, input_files, c), LAMBDA col :
      Bind(AssignOffsets(col.entries, CalculateHeaderSize(col.entries)),
           LAMBDA entries :
        IF ~col.ok
        THEN Result(FALSE, RemoveFile(opened, archive_path), <<>>, "input")
        ELSE IF fault = "header_write"
        THEN Result(FALSE, RemoveFile(opened, archive_path), <<>>,
                    "header_write")
        ELSE IF fault = "encode" \/ ~CanOpenAll(opened, entries)
        THEN Result(FALSE, RemoveFile(opened, archive_path), <<>>, "encode")
        ELSE Result(TRUE,
                    WriteFile(opened, archive_path,
                              WriteArchiveHeader(entries)
                              \o EncodeFilesFrom(opened, entries, c, 1)),
                    <<>>, "")))))

\* std::to_string / operator<< of a non-negative integer: decimal digits.
RECURSIVE DecimalString(_)
DecimalString(value) ==
  IF value < 10 THEN <<48 + value>>
  ELSE DecimalString(value \div 10) \o <<48 + (value % 10)>>

\* A line that prints the size of the entry's payload in the archive.
ListLineEncoded(entry) ==
  entry.name \o <<32, 40>> \o DecimalString(entry.encoded_size)
  \o <<32, 98, 121, 116, 101, 115, 41>>

\* "<name> (<original_size> bytes)"
ListLine(entry) ==
  entry.name \o <<32, 40>> \o DecimalString(entry.original_size)
  \o <<32, 98, 121, 116, 101, 115, 41>>

List(disk, archive_path) ==
  IF ~IsRegularFile(disk, archive_path)
  THEN Result(FALSE, disk, <<>>, "open_archive")
  ELSE
    Bind(ReadArchiveHeader(disk.files[archive_path]), LAMBDA hdr :
      IF ~hdr.ok THEN Result(FALSE, disk, <<>>, "header")
      ELSE Result(TRUE, disk,
                  [i \in 1..Len(hdr.entries) |-> ListLine(hdr.entries[i])],
                  ""))

\* The loop of Extract over entries_to_extract; `bytes` is the open archive
\* stream.  A failed decode leaves the output file with the bytes put on it
\* so far.
RECURSIVE ExtractLoopFrom(_, _, _, _, _, _)
ExtractLoopFrom(disk, bytes, entries, c, i, fault) ==
  IF i > Len(entries) THEN Result(TRUE, disk, <<>>, "")
  ELSE
    Bind(EnsureParentDirectoryExists(disk, entries[i].name), LAMBDA mk :
      IF ~mk.ok THEN Result(FALSE, disk, <<>>, "mkdir")
      ELSE IF \/ fault = "open"
              \/ entries[i].name = <<>>
              \/ IsDirectory(mk.disk, entries[i].name)
      THEN Result(FALSE, mk.disk, <<>>, "open")
      ELSE
        Bind(DecodeStream(c, SubSeq(bytes, entries[i].offset + 1, Len(bytes)),
                          entries[i].original_size), LAMBDA dec :
          IF ~dec.ok
          THEN Result(FALSE, WriteFile(mk.disk, entries[i].name, dec.out),
                      <<>>, IF dec.decode_error THEN "decode" ELSE "read")
          ELSE ExtractLoopFrom(WriteFile(mk.disk, entries[i].name, dec.out),
                               bytes, entries, c, i + 1, NoFault)))

\* A selection that ignores the request list.
EntriesToExtractAll(entries, requested_files) ==
  [ok |-> TRUE, entries |-> entries]

\* entries_to_extract of Extract: every entry for an empty request list,
\* otherwise what FindEntriesByNames finds.
EntriesToExtract(entries, requested_files) ==
  IF requested_files = <<>>
  THEN [ok |-> TRUE, entries |-> entries]
  ELSE FindEntriesByNames(entries, requested_files)

Extract(disk, archive_path, requested_files, c, fault) ==
  IF ~IsRegularFile(disk, archive_path)
  THEN Result(FALSE, disk, <<>>, "open_archive")
  ELSE
    Bind(ReadArchiveHeader(disk.files[archive_path]), LAMBDA hdr :
      IF ~hdr.ok THEN Result(FALSE, disk, <<>>, "header")
      ELSE
        Bind(EntriesToExtract(hdr.entries, requested_files),
             LAMBDA found :
          IF ~found.ok THEN Result(FALSE, disk, <<>>, "not_found")
          ELSE ExtractLoopFrom(disk, disk.files[archive_path],
                               found.entries, c, 1, fault)))

\* An entry list with the new entries put before the old ones.
AllEntriesNewFirst(old_entries, new_entries) == new_entries \o old_entries

\* all_entries of Append: the old entries, then the new ones.
AllEntries(old_entries, new_entries) == old_entries \o new_entries

\* Archiver::Append (Append itself is the sequence operator).
ArchiverAppend(disk, archive_path, input_files, c, fault) ==
  IF ~IsRegularFile(disk, archive_path)
  THEN Result(FALSE, disk, <<>>, "open_archive")
  ELSE
    Bind(ReadArchiveHeader(disk.files[archive_path]), LAMBDA hdr :
    Bind(CollectNewEntries(disk, input_files, c), LAMBDA col :
    Bind(RemoveFile(disk, TempPath(archive_path)), LAMBDA cleared :
      IF ~hdr.ok THEN Result(FALSE, disk, <<>>, "header")
      ELSE IF ~col.ok THEN Result(FALSE, disk, <<>>, "input")
      ELSE IF fault = "open" \/ IsDirectory(cleared, TempPath(archive_path))
      THEN Result(FALSE, cleared, <<>>, "open")
      ELSE IF fault = "header_write"
      THEN Result(FALSE, WriteFile(cleared, TempPath(archive_path), <<>>),
                  <<>>, "header_write")
      ELSE IF fault = "copy"
              \/ ~CanCopyAll(disk.files[archive_path], hdr.entries)
      THEN Result(FALSE, cleared, <<>>, "copy")
      ELSE IF fault = "encode" \/ ~CanOpenAll(cleared, col.entries)
      THEN Result(FALSE, cleared, <<>>, "encode")
      ELSE
        Bind(WriteFile(cleared, TempPath(archive_path),
               WriteArchiveHeader(
                 AssignOffsets(AllEntries(hdr.entries, col.entries),
                   CalculateHeaderSize(AllEntries(hdr.entries,
                                                  col.entries))))
               \o CopyEntriesFrom(disk.files[archive_path], hdr.entries, 1)
               \o EncodeFilesFrom(cleared, col.entries, c, 1)),
             LAMBDA staged :
          IF fault = "rename"
          THEN Result(FALSE, RemoveFile(staged, archive_path), <<>>,
                      "rename")
          ELSE Result(TRUE,
                      RenameFile(RemoveFile(staged, archive_path),
                                 TempPath(archive_path), archive_path),
                      <<>>, "")))))

\* A presence check whose `found` flag is not reset for each name: it passes
\* as soon as one name of the list is found.
SomeNamePresent(old_entries, files_to_delete) ==
  \/ files_to_delete = <<>>
  \/ \E i \in 1..Len(files_to_delete) :
       \E j \in 1..Len(old_entries) :
         old_entries[j].name = files_to_delete[i]

\* The validation loop of Delete: every name of the deletion list is the
\* name of some entry.
AllNamesPresent(old_entries, files_to_delete) ==
  \A i \in 1..Len(files_to_delete) :
    \E j \in 1..Len(old_entries) :
      old_entries[j].name = files_to_delete[i]

\* A selection that drops, for each name of the deletion list, only the
\* first entry of that name.
KeepEntriesFirstMatch(old_entries, files_to_delete) ==
  [j \in 1..Cardinality({i \in 1..Len(old_entries) :
                           \/ \A h \in 1..Len(files_to_delete) :
                                old_entries[i].name # files_to_delete[h]
                           \/ \E g \in 1..(i - 1) :
                                old_entries[g].name = old_entries[i].name})
     |-> old_entries[
           CHOOSE i \in 1..Len(old_entries) :
             /\ \/ \A h \in 1..Len(files_to_delete) :
                     old_entries[i].name # files_to_delete[h]
                \/ \E g \in 1..(i - 1) :
                     old_entries[g].name = old_entries[i].name
             /\ Cardinality({f \in 1..i :
                               \/ \A h \in 1..Len(files_to_delete) :
                                    old_entries[f].name # files_to_delete[h]
                               \/ \E g \in 1..(f - 1) :
                                    old_entries[g].name = old_entries[f].name})
                  = j]]

\* The entries Delete keeps: those whose name is not in the deletion list.
KeepEntries(old_entries, files_to_delete) ==
  SelectSeq(old_entries,
            LAMBDA e : \A i \in 1..Len(files_to_delete) :
                         e.name # files_to_delete[i])

Delete(disk, archive_path, files_to_delete, fault) ==
  IF ~IsRegularFile(disk, archive_path)
  THEN Result(FALSE, disk, <<>>, "open_archive")
  ELSE
    Bind(ReadArchiveHeader(disk.files[archive_path]), LAMBDA hdr :
    Bind(KeepEntries(hdr.entries, files_to_delete),
         LAMBDA keep_entries_old_offsets :
    Bind(RemoveFile(disk, TempPath(archive_path)), LAMBDA cleared :
      IF ~hdr.ok THEN Result(FALSE, disk, <<>>, "header")
      ELSE IF ~AllNamesPresent(hdr.entries, files_to_delete)
      THEN Result(FALSE, disk, <<>>, "not_found")
      ELSE IF Len(keep_entries_old_offsets) = Len(hdr.entries)
      THEN Result(FALSE, disk, <<>>, "nothing_deleted")
      ELSE IF fault = "open" \/ IsDirectory(cleared, TempPath(archive_path))
      THEN Result(FALSE, cleared, <<>>, "open")
      ELSE IF fault = "header_write"
      THEN Result(FALSE, cleared, <<>>, "header_write")
      ELSE IF fault = "copy"
              \/ ~CanCopyAll(disk.files[archive_path],
                             keep_entries_old_offsets)
      THEN Result(FALSE, cleared, <<>>, "copy")
      ELSE
        Bind(WriteFile(cleared, TempPath(archive_path),
               WriteArchiveHeader(
                 AssignOffsets(keep_entries_old_offsets,
                   CalculateHeaderSize(keep_entries_old_offsets)))
               \o CopyEntriesFrom(disk.files[archive_path],
                                  keep_entries_old_offsets, 1)),
             LAMBDA staged :
          IF fault = "rename"
          THEN Result(FALSE, RemoveFile(staged, archive_path), <<>>,
                      "rename")
          ELSE Result(TRUE,
                      RenameFile(RemoveFile(staged, archive_path),
                                 TempPath(archive_path), archive_path),
                      <<>>, "")))))

\* A search that stops at the first candidate, original_name(2).
FreeNameOnce(original_name, new_name, suffix, used_names) ==
  original_name \o <<40>> \o DecimalString(2) \o <<41>>

\* The while loop of Concatenate that looks for a free name:
\* original_name, original_name(2), original_name(3), ...
RECURSIVE FreeNameLoop(_, _, _, _)
FreeNameLoop(original_name, new_name, suffix, used_names) ==
  IF new_name \notin used_names THEN new_name
  ELSE FreeNameLoop(original_name,
                    original_name \o <<40>> \o DecimalString(suffix) \o <<41>>,
                    suffix + 1, used_names)

\* The loop over one source's entries: rename on conflict, record the name.
RECURSIVE MergeEntriesFrom(_, _, _)
MergeEntriesFrom(src_entries, i, acc) ==
  IF i > Len(src_entries) THEN acc
  ELSE
    Bind(IF src_entries[i].name \in acc.used_names
         THEN FreeNameLoop(src_entries[i].name, src_entries[i].name, 2,
                           acc.used_names)
         ELSE src_entries[i].name, LAMBDA name :
      MergeEntriesFrom(src_entries, i + 1,
        [acc EXCEPT !.used_names = acc.used_names \cup {name},
                    !.combined_entries =
                       Append(acc.combined_entries,
                              [src_entries[i] EXCEPT !.name = name])]))

\* The first loop of Concatenate over the source archives: read each header,
\* merge its entries, record where its payload region starts and how long
\* it is.
RECURSIVE MergeSourcesFrom(_, _, _, _)
MergeSourcesFrom(disk, source_archives, i, acc) ==
  IF i > Len(source_archives) THEN acc
  ELSE IF ~IsRegularFile(disk, source_archives[i])
  THEN [acc EXCEPT !.ok = FALSE, !.err = "open_source"]
  ELSE
    Bind(ReadArchiveHeader(disk.files[source_archives[i]]), LAMBDA hdr :
      IF ~hdr.ok
      THEN [acc EXCEPT !.ok = FALSE, !.err = "header"]
      ELSE
        Bind(MergeEntriesFrom(hdr.entries, 1, acc), LAMBDA merged :
          MergeSourcesFrom(disk, source_archives, i + 1,
            [merged EXCEPT !.sources =
               Append(merged.sources,
                      [path |-> source_archives[i],
                       data_start |-> hdr.pos,
                       data_length |->
                         IF Len(disk.files[source_archives[i]]) > hdr.pos
                         THEN Len(disk.files[source_archives[i]]) - hdr.pos
                         ELSE 0])])))

\* A copy loop that does not seek to data_start and reads each source from
\* the start of its file.
RECURSIVE CopySourcesNoSeek(_, _, _)
CopySourcesNoSeek(disk, sources, i) ==
  IF i > Len(sources) THEN <<>>
  ELSE SubSeq(disk.files[sources[i].path], 1, sources[i].data_length)
       \o CopySourcesNoSeek(disk, sources, i + 1)

\* The second loop of Concatenate: each source's whole payload region.
RECURSIVE CopySourcesFrom(_, _, _)
CopySourcesFrom(disk, sources, i) ==
  IF i > Len(sources) THEN <<>>
  ELSE SubSeq(disk.files[sources[i].path], sources[i].data_start + 1,
              sources[i].data_start + sources[i].data_length)
       \o CopySourcesFrom(disk, sources, i + 1)

Concatenate(disk, archive_path, source_archives, fault) ==
  Bind(RemoveFile(EnsureParentDirectoryExists(disk, archive_path).disk,
                  TempPath(archive_path)), LAMBDA cleared :
    IF fault = "open" \/ IsDirectory(cleared, TempPath(archive_path))
    THEN Result(FALSE, cleared, <<>>, "open")
    ELSE
      Bind(WriteFile(cleared, TempPath(archive_path), <<>>), LAMBDA opened :
      Bind(MergeSourcesFrom(opened, source_archives, 1,
             [ok |-> TRUE, err |-> "", combined_entries |-> <<>>,
              used_names |-> {}, sources |-> <<>>]), LAMBDA merged :
        IF ~merged.ok THEN Result(FALSE, cleared, <<>>, merged.err)
        ELSE IF fault = "header_write"
        THEN Result(FALSE, cleared, <<>>, "header_write")
        ELSE IF fault = "copy" THEN Result(FALSE, cleared, <<>>, "copy")
        ELSE
          Bind(WriteFile(opened, TempPath(archive_path),
                 WriteArchiveHeader(
                   AssignOffsets(merged.combined_entries,
                     CalculateHeaderSize(merged.combined_entries)))
                 \o CopySourcesFrom(opened, merged.sources, 1)),
               LAMBDA staged :
            IF fault = "rename"
            THEN Result(FALSE, RemoveFile(staged, archive_path), <<>>,
                        "rename")
            ELSE Result(TRUE,
                        RenameFile(RemoveFile(staged, archive_path),
                                   TempPath(archive_path), archive_path),
                        <<>>, "")))))

\* RunConcatenate: fewer than two source archives are refused before the
\* Archiver is called.
RunConcatenate(disk, archive_path, files, fault) ==
  IF Len(files) < 2 THEN Result(FALSE, disk, <<>>, "usage")
  ELSE Concatenate(disk, archive_path, files, fault)

(***************************************************************************)
(* State.                                                                  *)
(*   disk    the file system: [files, dirs]                                *)
(*   last    the last operation run: its name, arguments and outcome       *)
(*   hamming the HammingOptions (-D, -P) the invocations of the session    *)
(*           pass to the Archiver                                          *)
(*   flipped the bits of the archive file damaged since it was written     *)
(*   probe   the unit observed step by step: in the codec specifications   *)
(*           the codec under test (parameters, input, results so far), in  *)
(*           the command-line specification the process (argv, exit        *)
(*           status), in the writer specification the running operation    *)
(***************************************************************************)
VARIABLES disk, last, hamming, flipped, probe

vars == <<disk, last, hamming, flipped, probe>>

archive_vars == <<disk, last, hamming, flipped>>

(***************************************************************************)
(* Codec specifications: Init draws the parameters and the input, the      *)
(* actions apply the codec to them.                                        *)
(***************************************************************************)
MaxDataBits == 16

MaxParityBits == 8

\* Bounds of the codec specifications.
MaxK == 8

MaxR == 4

MaxLen == 2

SampleBytes == {0, 1, 90, 165, 255}

RECURSIVE SeqsUpTo(_, _)
SeqsUpTo(S, n) ==
  IF n = 0 THEN {<<>>}
  ELSE LET shorter == SeqsUpTo(S, n - 1)
       IN shorter \cup {Append(q, x) : q \in {t \in shorter : Len(t) = n - 1},
                                       x \in S}

Idle == [pc |-> "off"]

\* HammingParameters / HammingOptions defaults.
DefaultHamming == [data_bits |-> 8, parity_bits |-> 4]

NoArchives == [files |-> <<>>, dirs |-> {}]

NoOp == [op |-> "none", ok |-> FALSE]

StreamInit ==
  /\ \E k \in 1..MaxK, r \in 1..MaxR, bytes \in SeqsUpTo(SampleBytes, MaxLen) :
        probe = [pc |-> "input", k |-> k, r |-> r, bytes |-> bytes]
  /\ disk = NoArchives
  /\ last = NoOp
  /\ hamming = DefaultHamming
  /\ flipped = {}

\* HammingCodec::EncodeStream on the input.
StreamEncode ==
  /\ probe.pc = "input"
  /\ probe' = [pc |-> "encoded", k |-> probe.k, r |-> probe.r,
               bytes |-> probe.bytes,
               encoded |-> EncodeStream(HammingCodec(probe.k, probe.r),
                                        probe.bytes)]
  /\ UNCHANGED archive_vars

\* HammingCodec::DecodeStream on the encoder's output, with original_size
\* the length of the input.
StreamDecode ==
  /\ probe.pc = "encoded"
  /\ probe' = [pc |-> "decoded", k |-> probe.k, r |-> probe.r,
               bytes |-> probe.bytes, encoded |-> probe.encoded,
               decoded |-> DecodeStream(HammingCodec(probe.k, probe.r),
                                        probe.encoded, Len(probe.bytes))]
  /\ UNCHANGED archive_vars

StreamNext == StreamEncode \/ StreamDecode

SpecStream == StreamInit /\ [][StreamNext]_vars

(***************************************************************************)
(* Claims about the stream codec, checked under SpecStream.                *)
(***************************************************************************)
\* 2^r >= k + r + 1: the parameters leave a data slot for each of the k
\* data bits among the k + r codeword positions.
WellFormed(k, r) == 2 ^ r >= k + r + 1

\* The least q with q * b >= a.
CeilDiv(a, b) == CHOOSE q \in 0..a : q * b >= a /\ (q = 0 \/ (q - 1) * b < a)

\* C1: for every byte sequence B and every (k, r), DecodeStream applied to
\* the output of EncodeStream(B) with original_size = |B| succeeds and
\* produces exactly B.
C1_RoundTrip ==
  probe.pc = "decoded" =>
    /\ probe.decoded.ok
    /\ probe.decoded.out = probe.bytes

\* C3: the number of bytes EncodeStream writes is
\* ceil(ceil(|B| * 8 / k) * (k + r) / 8), and that is the value
\* CalculateEncodedSize computes for original_size = |B| (0 for empty B).
C3_SizeFormula ==
  probe.pc \in {"encoded", "decoded"} =>
    /\ Len(probe.encoded)
         = CeilDiv(CeilDiv(Len(probe.bytes) * 8, probe.k)
                   * (probe.k + probe.r), 8)
    /\ Len(probe.encoded)
         = CalculateEncodedSize(HammingCodec(probe.k, probe.r),
                                Len(probe.bytes))

\* C3 witness: an input whose last block and whose last output byte are
\* both partial has been encoded.
C3_Witness ==
  /\ probe.pc = "encoded"
  /\ (Len(probe.bytes) * 8) % probe.k # 0
  /\ (CeilDiv(Len(probe.bytes) * 8, probe.k) * (probe.k + probe.r)) % 8 # 0

(***************************************************************************)
(* Block codec specification: Init draws the parameters and a data value,  *)
(* the actions encode it, damage bits of the codeword, and decode it.      *)
(***************************************************************************)
MaxBlockFlips == 2

BlockInit ==
  /\ \E k \in 1..MaxK, r \in 1..MaxR :
       \E d \in 0..(2 ^ k - 1) :
         probe = [pc |-> "data", k |-> k, r |-> r, data |-> d]
  /\ disk = NoArchives
  /\ last = NoOp
  /\ hamming = DefaultHamming
  /\ flipped = {}

\* HammingCodec::EncodeBlock on the data value.
BlockEncode ==
  /\ probe.pc = "data"
  /\ probe' = [pc |-> "codeword", k |-> probe.k, r |-> probe.r,
               data |-> probe.data,
               codeword |-> EncodeBlock(HammingCodec(probe.k, probe.r),
                                        probe.data),
               damaged |-> {}]
  /\ UNCHANGED archive_vars

\* The medium flips bit i (0-based) of the stored codeword.
BlockFlip ==
  /\ probe.pc = "codeword"
  /\ Cardinality(probe.damaged) < MaxBlockFlips
  /\ \E i \in (0..(probe.k + probe.r - 1)) \ probe.damaged :
       probe' = [probe EXCEPT !.codeword = XorBit(@, i),
                              !.damaged = @ \cup {i}]
  /\ UNCHANGED archive_vars

\* HammingCodec::DecodeBlock on the stored codeword.
BlockDecode ==
  /\ probe.pc = "codeword"
  /\ probe' = [pc |-> "block_decoded", k |-> probe.k, r |-> probe.r,
               data |-> probe.data, codeword |-> probe.codeword,
               damaged |-> probe.damaged,
               result |-> DecodeBlock(HammingCodec(probe.k, probe.r),
                                      probe.codeword)]
  /\ UNCHANGED archive_vars

BlockNext == BlockEncode \/ BlockFlip \/ BlockDecode

SpecBlock == BlockInit /\ [][BlockNext]_vars

\* C2: for every (k, r) the command line admits, every data value d in
\* [0, 2^k) and every bit index i with 0 <= i < k + r,
\* DecodeBlock(EncodeBlock(d) XOR (1 << i)) returns (d, error_flag = false).
C2_SingleBitCorrection ==
  (probe.pc = "block_decoded" /\ Cardinality(probe.damaged) = 1) =>
    probe.result = [data |-> probe.data, has_error |-> FALSE]

\* C28: for every (k, r) with 2^r >= k + r + 1 and every d in [0, 2^k),
\* EncodeBlock(d) has syndrome 0 and holds all k data bits of d (so
\* EncodeBlock is injective), DecodeBlock(EncodeBlock(d)) = (d, false), and
\* DecodeBlock of EncodeBlock(d) with any one bit flipped = (d, false).
C28_BlockCodecWellFormed ==
  (probe.pc \in {"codeword", "block_decoded"} /\ WellFormed(probe.k, probe.r))
  => /\ (probe.pc = "codeword" /\ probe.damaged = {})
          => /\ probe.codeword \in 0..(2 ^ (probe.k + probe.r) - 1)
             /\ CalculateSyndrome(probe.codeword, probe.k + probe.r) = 0
             /\ ExtractDataBits(probe.codeword, probe.k + probe.r)
                  = probe.data
     /\ (probe.pc = "block_decoded" /\ Cardinality(probe.damaged) <= 1)
          => probe.result = [data |-> probe.data, has_error |-> FALSE]

\* C28 witness: with well-formed parameters, a codeword of a non-zero data
\* value was decoded after the bit at a data position was flipped.
C28_Witness ==
  /\ probe.pc = "block_decoded"
  /\ WellFormed(probe.k, probe.r)
  /\ probe.data # 0
  /\ \E i \in 0..(probe.k + probe.r - 1) :
       probe.damaged = {i} /\ ~IsParityPosition(i + 1)
  /\ probe.result = [data |-> probe.data, has_error |-> FALSE]

(***************************************************************************)
(* Archive specifications.  A session works on one archive, "X", in a      *)
(* working directory that holds the directory "d" with the input files     *)
(* "d/a" and "d/b", of different contents; "d/m" names a file that does    *)
(* not exist.  Every invocation passes the same Hamming options.           *)
(***************************************************************************)
ArchiveX == <<88>>

Dir == <<100>>

Fa == <<100, 47, 97>>

Fb == <<100, 47, 98>>

Fm == <<100, 47, 109>>

\* Contents the input files are drawn from.
FileContents == {<<165>>, <<1, 90>>}

\* (data_bits, parity_bits) the session is drawn from: the default, a
\* shorter code, and a pair with 2^r < k + r + 1.
HammingChoices == {<<8, 4>>, <<4, 3>>, <<2, 2>>}

InputLists == {<<>>, <<Fa>>, <<Fb>>, <<Fa, Fb>>, <<Fb, Fa>>, <<Fa, Fa>>,
               <<Fm>>, <<Fa, Fm>>}

NameLists == {<<>>, <<<<97>>>>, <<<<98>>>>, <<<<97>>, <<98>>>>,
              <<<<98>>, <<97>>>>, <<<<109>>>>, <<<<97>>, <<109>>>>,
              <<<<109>>, <<97>>>>}

\* Largest number of entries an archive of the session grows to.
MaxEntries == 2

Codec == HammingCodec(hamming.data_bits, hamming.parity_bits)

\* The entries the archive's header lists (none when there is no readable
\* archive).
Entries(d, archive_path) ==
  IF IsRegularFile(d, archive_path)
  THEN ReadArchiveHeader(d.files[archive_path]).entries
  ELSE <<>>

ArchiveInit ==
  /\ \E a \in FileContents : \E b \in FileContents \ {a} :
       disk = [files |-> (Fa :> a) @@ (Fb :> b), dirs |-> {Dir}]
  /\ \E kr \in HammingChoices :
       hamming = [data_bits |-> kr[1], parity_bits |-> kr[2]]
  /\ last = NoOp
  /\ flipped = {}
  /\ probe = Idle

\* What one invocation leaves in the state: the file system, the record of
\* the call (for an append, with whether it directly follows a successful
\* create), and the damage, which is gone once the archive file is replaced.
Invoke(op, args, fault, result) ==
  \E res \in {result} :
    /\ disk' = res.disk
    /\ last' = [op |-> op, archive |-> ArchiveX, args |-> args,
                fault |-> fault, ok |-> res.ok, err |-> res.err,
                out |-> res.out,
                after_create |-> /\ op = "append"
                                 /\ last.op = "create" /\ last.ok]
    /\ flipped' = IF /\ IsRegularFile(res.disk, ArchiveX)
                     /\ IsRegularFile(disk, ArchiveX)
                     /\ res.disk.files[ArchiveX] = disk.files[ArchiveX]
                  THEN flipped ELSE {}
    /\ UNCHANGED <<hamming, probe>>

\* hamarc --create
CreateAct(lists, faults) ==
  \E input_files \in lists, fault \in faults :
    Invoke("create", input_files, fault,
           Create(disk, ArchiveX, input_files, Codec, fault))

\* hamarc --list
ListAct ==
  Invoke("list", <<>>, NoFault, List(disk, ArchiveX))

\* hamarc --extract
ExtractAct(lists, faults) ==
  \E requested_files \in lists, fault \in faults :
    Invoke("extract", requested_files, fault,
           Extract(disk, ArchiveX, requested_files, Codec, fault))

\* hamarc --append
AppendAct(lists, faults) ==
  \E input_files \in lists, fault \in faults :
    /\ Len(Entries(disk, ArchiveX)) + Len(input_files) <= MaxEntries
    /\ Invoke("append", input_files, fault,
              ArchiverAppend(disk, ArchiveX, input_files, Codec, fault))

\* hamarc --delete
DeleteAct(lists, faults) ==
  \E files_to_delete \in lists, fault \in faults :
    Invoke("delete", files_to_delete, fault,
           Delete(disk, ArchiveX, files_to_delete, fault))

Next ==
  \/ CreateAct(InputLists, {NoFault})
  \/ ListAct
  \/ ExtractAct(NameLists, {NoFault})
  \/ AppendAct(InputLists, {NoFault})
  \/ DeleteAct(NameLists, {NoFault})

Spec == ArchiveInit /\ [][Next]_vars

(***************************************************************************)
(* Claims about the archive operations, checked under Spec.                *)
(***************************************************************************)
Names(entries) == [i \in 1..Len(entries) |-> entries[i].name]

\* The input file an entry of the session's archive was made from.
SourceOf(name) == Dir \o <<Slash>> \o name

DistinctBasenames(input_files) ==
  \A i, j \in 1..Len(input_files) :
    i # j => Filename(input_files[i]) # Filename(input_files[j])

\* C4: for input files with pairwise distinct basenames, Create followed by
\* Extract with an empty request list and the same (k, r) succeeds and
\* writes, for each input, a file named by its basename whose bytes equal
\* the input's bytes.
C4_ArchiveRoundTrip ==
  [][(/\ last.op = "create" /\ last.ok
      /\ DistinctBasenames(last.args)
      /\ last'.op = "extract" /\ last'.args = <<>>)
     => /\ last'.ok
        /\ \A i \in 1..Len(last.args) :
             /\ IsRegularFile(disk', Filename(last.args[i]))
             /\ disk'.files[Filename(last.args[i])]
                  = disk.files[last.args[i]]]_vars

\* What Extract with an empty request list returns and leaves on the file
\* system beside the archive itself.
ExtractAll(d) ==
  Bind(Extract(d, ArchiveX, <<>>, Codec, NoFault), LAMBDA res :
    [ok |-> res.ok, files |-> RemoveFile(res.disk, ArchiveX)])

\* C7: Create(A, [F1]) followed by Append(A, [F2]) and then Extract-all
\* produces the same files with the same contents as Create(A, [F1, F2])
\* followed by Extract-all.
C7_AppendEquivalence ==
  [][(/\ last.op = "create" /\ last.ok
      /\ last'.op = "append" /\ last'.ok)
     => ExtractAll(disk')
          = ExtractAll(Create(disk, ArchiveX, last.args \o last'.args,
                              Codec, NoFault).disk)]_vars

\* C7 witness: a non-empty list has been appended to an archive that a
\* Create with a non-empty list had just written.
C7_Witness ==
  /\ last.op = "append" /\ last.ok /\ last.after_create
  /\ last.args # <<>>
  /\ Len(Entries(disk, ArchiveX)) > Len(last.args)

\* C30: for input files unchanged between the calls and the same (k, r),
\* the archive file that Create(A, [F1]) followed by Append(A, [F2]) leaves
\* is byte-identical, header and payload region, to the one
\* Create(A, [F1, F2]) leaves (here for lists F1 and F2 of input files).
C30_AppendSameBytesAsCreate ==
  [][(/\ last.op = "create" /\ last.ok
      /\ last'.op = "append" /\ last'.ok)
     => /\ IsRegularFile(disk', ArchiveX)
        /\ Create(disk, ArchiveX, last.args \o last'.args, Codec, NoFault).ok
        /\ disk'.files[ArchiveX]
             = Create(disk, ArchiveX, last.args \o last'.args,
                      Codec, NoFault).disk.files[ArchiveX]]_vars

\* C30 witness: one file was appended to the archive that a Create of one
\* other file had just written, and the two payloads differ.
C30_Witness ==
  /\ last.op = "append" /\ last.ok /\ last.after_create
  /\ Len(last.args) = 1
  /\ Len(Entries(disk, ArchiveX)) = 2
  /\ Entries(disk, ArchiveX)[1].name # Entries(disk, ArchiveX)[2].name
  /\ Entries(disk, ArchiveX)[1].original_size
       # Entries(disk, ArchiveX)[2].original_size

RECURSIVE SumEncodedSizes(_)
SumEncodedSizes(entries) ==
  IF entries = <<>> THEN 0
  ELSE Head(entries).encoded_size + SumEncodedSizes(Tail(entries))

\* C8: after a successful Delete the header lists exactly the entries whose
\* names are not in the deletion list, in their original order; extracting
\* each kept entry yields its original bytes; and the archive's length is
\* header_size(kept entries) plus the sum of their encoded_size.
C8_DeleteResult ==
  [][(last'.op = "delete" /\ last'.ok)
     => /\ Names(Entries(disk', ArchiveX))
             = SelectSeq(Names(Entries(disk, ArchiveX)),
                         LAMBDA n : \A i \in 1..Len(last'.args) :
                                      n # last'.args[i])
        /\ \A i \in 1..Len(Entries(disk', ArchiveX)) :
             Bind(Entries(disk', ArchiveX)[i].name, LAMBDA n :
               Bind(Extract(disk', ArchiveX, <<n>>, Codec, NoFault),
                    LAMBDA res :
                 /\ res.ok
                 /\ res.disk.files[n] = disk.files[SourceOf(n)]))
        /\ Len(disk'.files[ArchiveX])
             = CalculateHeaderSize(Entries(disk', ArchiveX))
               + SumEncodedSizes(Entries(disk', ArchiveX))]_vars

\* C9: if a name of the deletion list is not in the archive header, Delete
\* fails, creates no temp file and leaves the archive byte-identical, even
\* when other names of the list are present: the call changes nothing on
\* the file system.
C9_DeleteAbsentName ==
  [][(/\ last'.op = "delete"
      /\ IsRegularFile(disk, ArchiveX)
      /\ \E i \in 1..Len(last'.args) :
           \A j \in 1..Len(Entries(disk, ArchiveX)) :
             Entries(disk, ArchiveX)[j].name # last'.args[i])
     => /\ ~last'.ok
        /\ ~Exists(disk', TempPath(ArchiveX))
        /\ disk' = disk]_vars

\* C9 witness: a Delete was given a name the archive holds together with a
\* name it does not hold.
C9_Witness ==
  /\ last.op = "delete" /\ ~last.ok /\ last.err = "not_found"
  /\ \E i, h \in 1..Len(last.args) :
       /\ \E j \in 1..Len(Entries(disk, ArchiveX)) :
            Entries(disk, ArchiveX)[j].name = last.args[i]
       /\ \A j \in 1..Len(Entries(disk, ArchiveX)) :
            Entries(disk, ArchiveX)[j].name # last.args[h]

\* C10: if a requested name is not in the archive, Extract fails before it
\* creates, truncates or writes any output file, including the files of
\* requested names that are present and precede the absent one.
C10_ExtractAbsentName ==
  [][(/\ last'.op = "extract"
      /\ IsRegularFile(disk, ArchiveX)
      /\ \E i \in 1..Len(last'.args) :
           \A j \in 1..Len(Entries(disk, ArchiveX)) :
             Entries(disk, ArchiveX)[j].name # last'.args[i])
     => /\ ~last'.ok
        /\ disk' = disk]_vars

\* C10 witness: an Extract was asked for a name the archive holds followed
\* by a name it does not hold, and the file of the first is not there.
C10_Witness ==
  /\ last.op = "extract" /\ ~last.ok /\ last.err = "not_found"
  /\ Len(last.args) = 2
  /\ \E j \in 1..Len(Entries(disk, ArchiveX)) :
       Entries(disk, ArchiveX)[j].name = last.args[1]
  /\ \A j \in 1..Len(Entries(disk, ArchiveX)) :
       Entries(disk, ArchiveX)[j].name # last.args[2]
  /\ ~Exists(disk, last.args[1])

DistinctNames(entries) ==
  \A i, j \in 1..Len(entries) : i # j => entries[i].name # entries[j].name

\* What decoding an entry's payload from the archive bytes yields.
Decoded(bytes, entry) ==
  DecodeStream(Codec, SubSeq(bytes, entry.offset + 1, Len(bytes)),
               entry.original_size).out

\* C11: with an empty request list a successful Extract writes every entry
\* of the archive, in header order; with a non-empty list it writes the
\* entries whose names are requested, in the order of the request list; the
\* file of each written entry holds the entry's decoded payload, and no
\* file other than those of the requested names is created or changed.
C11_ExtractSelection ==
  [][(last'.op = "extract" /\ last'.ok)
     => Bind(Entries(disk, ArchiveX), LAMBDA entries :
        Bind(IF last'.args = <<>> THEN Names(entries) ELSE last'.args,
             LAMBDA wanted :
          /\ DistinctNames(entries)
               => Names(EntriesToExtract(entries, last'.args).entries)
                    = wanted
          /\ \A i \in 1..Len(wanted) :
               /\ IsRegularFile(disk', wanted[i])
               /\ \E j \in 1..Len(entries) :
                    /\ entries[j].name = wanted[i]
                    /\ disk'.files[wanted[i]]
                         = Decoded(disk.files[ArchiveX], entries[j])
          /\ \A p \in (DOMAIN disk.files \cup DOMAIN disk'.files)
                        \ {wanted[i] : i \in 1..Len(wanted)} :
               /\ p \in DOMAIN disk.files
               /\ p \in DOMAIN disk'.files
               /\ disk'.files[p] = disk.files[p]
          /\ disk'.dirs = disk.dirs))]_vars

\* C11 witness: one entry of an archive of two was extracted by name, and
\* the other entry has no file.
C11_Witness ==
  /\ last.op = "extract" /\ last.ok
  /\ Len(last.args) = 1
  /\ Len(Entries(disk, ArchiveX)) = 2
  /\ \E j \in 1..2 : ~Exists(disk, Entries(disk, ArchiveX)[j].name)

\* C15: in every archive written by Create or Append, the names recorded in
\* the header are pairwise distinct, also when Create is given two input
\* paths with the same basename and when Append is given a file whose
\* basename is already in the archive.
C15_NameUniqueness ==
  IsRegularFile(disk, ArchiveX) => DistinctNames(Entries(disk, ArchiveX))

\* C22: Create checks its input paths before it opens the archive path for
\* truncating write: when an input path is missing or is a directory,
\* Create fails and a file that existed at the archive path is still there
\* with the bytes it had.
C22_CreateStepOrder ==
  [][(/\ last'.op = "create"
      /\ ~last'.ok
      /\ last'.err = "input"
      /\ IsRegularFile(disk, ArchiveX))
     => /\ IsRegularFile(disk', ArchiveX)
        /\ disk'.files[ArchiveX] = disk.files[ArchiveX]]_vars

\* C29: Delete fails with `No specified files were deleted` only for an
\* empty deletion list: for a valid archive and a non-empty list all of
\* whose names are in the header, the kept list is shorter than the entry
\* list and Delete succeeds; every entry whose name is in the list is
\* removed, all the entries of a name recorded twice included, and the
\* others are kept in order.
C29_DeleteNoOp ==
  [][(/\ last'.op = "delete"
      /\ IsRegularFile(disk, ArchiveX)
      /\ ReadArchiveHeader(disk.files[ArchiveX]).ok)
     => Bind(Names(Entries(disk, ArchiveX)), LAMBDA names :
        Bind({last'.args[i] : i \in 1..Len(last'.args)}, LAMBDA listed :
          /\ last'.err = "nothing_deleted" => last'.args = <<>>
          /\ (last'.args # <<>>
              /\ listed \subseteq {names[i] : i \in 1..Len(names)})
               => /\ last'.ok
                  /\ Len(Entries(disk', ArchiveX)) < Len(names)
                  /\ Names(Entries(disk', ArchiveX))
                       = SelectSeq(names, LAMBDA n : n \notin listed)))]_vars

\* C29 witness: a Delete of two names has succeeded and left an archive
\* without entries.
C29_Witness ==
  /\ last.op = "delete" /\ last.ok
  /\ Len(last.args) = 2
  /\ IsRegularFile(disk, ArchiveX)
  /\ ReadArchiveHeader(disk.files[ArchiveX]).ok
  /\ Entries(disk, ArchiveX) = <<>>

\* The number a sequence of decimal digit characters denotes.
RECURSIVE DecimalValue(_)
DecimalValue(digits) ==
  IF digits = <<>> THEN 0
  ELSE 10 * DecimalValue(SubSeq(digits, 1, Len(digits) - 1))
       + (digits[Len(digits)] - 48)

\* `line` is "<name> (<size> bytes)" with the size in decimal, without
\* leading zeros.
IsListLine(line, name, size) ==
  /\ Len(line) >= Len(name) + 10
  /\ SubSeq(line, 1, Len(name)) = name
  /\ SubSeq(line, Len(name) + 1, Len(name) + 2) = <<32, 40>>
  /\ SubSeq(line, Len(line) - 6, Len(line))
       = <<32, 98, 121, 116, 101, 115, 41>>
  /\ Bind(SubSeq(line, Len(name) + 3, Len(line) - 7), LAMBDA digits :
       /\ \A i \in 1..Len(digits) : digits[i] \in 48..57
       /\ Len(digits) > 1 => digits[1] # 48
       /\ DecimalValue(digits) = size)

\* C19: for a readable archive with a valid header, List succeeds, prints
\* exactly one line per header entry, in header order, of the form
\* "<name> (<original_size> bytes)" with original_size the byte length of
\* the input file, and does not modify the archive (nor any other file).
C19_ListOutput ==
  [][(/\ last'.op = "list"
      /\ IsRegularFile(disk, ArchiveX)
      /\ ReadArchiveHeader(disk.files[ArchiveX]).ok)
     => Bind(Entries(disk, ArchiveX), LAMBDA entries :
          /\ last'.ok
          /\ Len(last'.out) = Len(entries)
          /\ \A i \in 1..Len(entries) :
               IsListLine(last'.out[i], entries[i].name,
                          Len(disk.files[SourceOf(entries[i].name)]))
          /\ disk' = disk)]_vars

\* C19 witness: List printed the lines of two entries of different sizes.
C19_Witness ==
  /\ last.op = "list" /\ last.ok
  /\ Len(last.out) = 2
  /\ Bind(Entries(disk, ArchiveX), LAMBDA entries :
       /\ Len(entries) = 2
       /\ entries[1].original_size # entries[2].original_size)

(***************************************************************************)
(* Damage specification: the session creates the archive once, the medium  *)
(* flips bits of its payload region, and the archive is extracted.         *)
(***************************************************************************)
MaxFlips == 2

DamageLists == {<<Fa>>, <<Fa, Fb>>}

\* The medium flips one bit of the payload region of the archive file.  Bit
\* b of the file is bit b % 8 of its byte b \div 8.
FlipPayloadBit ==
  /\ IsRegularFile(disk, ArchiveX)
  /\ last.op # "extract"
  /\ Cardinality(flipped) < MaxFlips
  /\ \E b \in (8 * ReadArchiveHeader(disk.files[ArchiveX]).pos)
                ..(8 * Len(disk.files[ArchiveX]) - 1) :
       /\ b \notin flipped
       /\ disk' = [disk EXCEPT !.files[ArchiveX][(b \div 8) + 1] =
                                 XorBit(@, b % 8)]
       /\ flipped' = flipped \cup {b}
  /\ last' = [op |-> "flip", ok |-> TRUE]
  /\ UNCHANGED <<hamming, probe>>

DamageNext ==
  \/ (~Exists(disk, ArchiveX) /\ CreateAct(DamageLists, {NoFault}))
  \/ FlipPayloadBit
  \/ ExtractAct({<<>>}, {NoFault})

SpecDamage == ArchiveInit /\ [][DamageNext]_vars

\* The codewords of an entry's payload: its first
\* ceil(8 * original_size / data_bits) blocks of total_bits bits.
CodewordCount(entry) == CeilDiv(8 * entry.original_size, hamming.data_bits)

\* The 1-based positions of the flipped bits inside codeword j (from 0) of
\* an entry: codewords are packed at bit granularity from the entry's
\* offset on.
FlippedIn(entry, j) ==
  {b - 8 * entry.offset - j * Codec.total_bits_ + 1 :
     b \in {x \in flipped :
              /\ x >= 8 * entry.offset + j * Codec.total_bits_
              /\ x < 8 * entry.offset + (j + 1) * Codec.total_bits_}}

\* The bitwise exclusive or of a set of natural numbers below 64.
XorAll(S) ==
  BitsToInt({i \in 0..5 : Cardinality({p \in S : BitAt(p, i) = 1}) % 2 = 1})

\* The (entry, codeword) pairs of an archive with the given entries.
Codewords(entries) ==
  UNION {{<<i, j>> : j \in 0..CodewordCount(entries[i]) - 1} :
           i \in 1..Len(entries)}

\* For each codeword, the 1-based positions of its flipped bits.
Flips(entries) ==
  [cw \in Codewords(entries) |-> FlippedIn(entries[cw[1]], cw[2])]

Extracted == last.op = "extract" /\ IsRegularFile(disk, ArchiveX)

\* C5: for an archive created with (8, 4) or (4, 3), after flipping payload
\* bits with at most one flipped bit per codeword, Extract succeeds and
\* every extracted file is byte-identical to its original.
C5_PayloadSingleBitRepair ==
  (/\ Extracted
   /\ <<hamming.data_bits, hamming.parity_bits>> \in {<<8, 4>>, <<4, 3>>})
  => Bind(Entries(disk, ArchiveX), LAMBDA entries :
       Bind(Flips(entries), LAMBDA flips :
         (\A cw \in DOMAIN flips : Cardinality(flips[cw]) <= 1)
         => /\ last.ok
            /\ \A i \in 1..Len(entries) :
                 disk.files[entries[i].name]
                   = disk.files[SourceOf(entries[i].name)]))

\* C5 witness: an archive of two entries was extracted with one flipped bit
\* in each of two codewords.
C5_Witness ==
  /\ Extracted /\ last.ok
  /\ <<hamming.data_bits, hamming.parity_bits>> \in {<<8, 4>>, <<4, 3>>}
  /\ Bind(Entries(disk, ArchiveX), LAMBDA entries :
       Bind(Flips(entries), LAMBDA flips :
         /\ Len(entries) = 2
         /\ Cardinality({cw \in DOMAIN flips :
                           Cardinality(flips[cw]) = 1}) = 2))

\* C6 as stated: whenever two or more bits inside one codeword of an
\* entry's payload are flipped, Extract of that entry fails with a decoding
\* error.
C6_MultiBitReported ==
  Extracted
  => Bind(Flips(Entries(disk, ArchiveX)), LAMBDA flips :
       (\E cw \in DOMAIN flips : Cardinality(flips[cw]) >= 2)
       => (~last.ok /\ last.err = "decode"))

\* C6 amended: Extract fails with a decoding error exactly when, in some
\* codeword of an entry's payload, the exclusive or of the 1-based
\* positions of the flipped bits exceeds total_bits; flipped bits whose
\* positions combine to a value within 0..total_bits are not reported and
\* Extract returns success.
C6_ReportedWhenBeyondCodeword ==
  Extracted
  => Bind(Flips(Entries(disk, ArchiveX)), LAMBDA flips :
       /\ (~last.ok /\ last.err = "decode")
            <=> \E cw \in DOMAIN flips :
                  XorAll(flips[cw]) > Codec.total_bits_
       /\ last.ok
            <=> \A cw \in DOMAIN flips :
                  XorAll(flips[cw]) <= Codec.total_bits_)

\* C6 witness: an Extract reported a decoding error for a codeword with two
\* flipped bits.
C6_Witness ==
  /\ Extracted /\ ~last.ok /\ last.err = "decode"
  /\ Bind(Flips(Entries(disk, ArchiveX)), LAMBDA flips :
       \E cw \in DOMAIN flips :
         /\ Cardinality(flips[cw]) = 2
         /\ XorAll(flips[cw]) > Codec.total_bits_)

(***************************************************************************)
(* Concatenate specification: beside the archive "X" the session keeps the *)
(* archives "Y" and "Z", created once each from the input files; "e/a" is  *)
(* a second input file named "a", with the bytes of "d/b".  "X" is created,*)
(* appended to, deleted from, and written by Concatenate, which may name   *)
(* "X" itself among its sources; "W" names an archive that does not exist. *)
(***************************************************************************)
ArchiveY == <<89>>

ArchiveZ == <<90>>

ArchiveW == <<87>>

Dir2 == <<101>>

Ea == <<101, 47, 97>>

\* Largest number of entries a Concatenate of the session merges.
MaxMerged == 3

SourceLists == {<<ArchiveY>>, <<ArchiveY, ArchiveZ>>, <<ArchiveZ, ArchiveY>>,
                <<ArchiveY, ArchiveY>>, <<ArchiveX, ArchiveY>>,
                <<ArchiveZ, ArchiveX>>, <<ArchiveY, ArchiveY, ArchiveY>>,
                <<ArchiveY, ArchiveW>>}

ConcatInit ==
  /\ disk = [files |-> (Fa :> <<165>>) @@ (Fb :> <<1, 90>>)
                       @@ (Ea :> <<1, 90>>),
             dirs |-> {Dir, Dir2}]
  /\ \E kr \in HammingChoices :
       hamming = [data_bits |-> kr[1], parity_bits |-> kr[2]]
  /\ last = NoOp
  /\ flipped = {}
  /\ probe = Idle

\* hamarc --create on one of the source archives, which does not exist yet.
CreateSourceAct(archives, lists) ==
  \E archive_path \in archives, input_files \in lists :
    /\ ~Exists(disk, archive_path)
    /\ \E res \in {Create(disk, archive_path, input_files, Codec, NoFault)} :
         /\ disk' = res.disk
         /\ last' = [op |-> "create", archive |-> archive_path,
                     args |-> input_files, fault |-> NoFault,
                     ok |-> res.ok, err |-> res.err, out |-> res.out,
                     after_create |-> FALSE]
    /\ UNCHANGED <<hamming, flipped, probe>>

RECURSIVE TotalEntries(_, _)
TotalEntries(d, source_archives) ==
  IF source_archives = <<>> THEN 0
  ELSE Len(Entries(d, Head(source_archives)))
       + TotalEntries(d, Tail(source_archives))

\* hamarc --concatenate
ConcatAct(lists, faults) ==
  \E source_archives \in lists, fault \in faults :
    /\ TotalEntries(disk, source_archives) <= MaxMerged
    /\ Invoke("concatenate", source_archives, fault,
              RunConcatenate(disk, ArchiveX, source_archives, fault))

ConcatNext ==
  \/ CreateSourceAct({ArchiveY}, {<<Fa>>, <<Fa, Fb>>})
  \/ CreateSourceAct({ArchiveZ}, {<<Ea>>, <<Fb, Ea>>})
  \/ CreateAct({<<Fa>>, <<Fa, Ea>>}, {NoFault})
  \/ AppendAct({<<Fb>>, <<Ea>>}, {NoFault})
  \/ DeleteAct({<<<<97>>>>, <<<<98>>>>}, {NoFault})
  \/ ConcatAct(SourceLists, {NoFault})

SpecConcat == ConcatInit /\ [][ConcatNext]_vars

\* The entries of the source archives in the order Concatenate meets them,
\* each with the archive it comes from.
RECURSIVE SourceEntries(_, _)
SourceEntries(d, source_archives) ==
  IF source_archives = <<>> THEN <<>>
  ELSE Bind(Entries(d, Head(source_archives)), LAMBDA entries :
         [i \in 1..Len(entries) |->
            [path |-> Head(source_archives), entry |-> entries[i]]])
       \o SourceEntries(d, Tail(source_archives))

\* N(j)
Suffixed(name, j) == name \o <<40>> \o DecimalString(j) \o <<41>>

\* The names the rename policy records for a sequence of names: a name not
\* yet used is kept, a name N already used becomes N(j) for the smallest
\* j >= 2 with N(j) not yet used.
RECURSIVE RenamePolicy(_, _)
RenamePolicy(names, recorded) ==
  IF Len(recorded) = Len(names) THEN recorded
  ELSE
    Bind(names[Len(recorded) + 1], LAMBDA N :
    Bind({recorded[i] : i \in 1..Len(recorded)}, LAMBDA used :
      RenamePolicy(names,
        Append(recorded,
               IF N \notin used THEN N
               ELSE Suffixed(N, CHOOSE j \in 2..(Len(names) + 1) :
                                  /\ Suffixed(N, j) \notin used
                                  /\ \A h \in 2..(j - 1) :
                                       Suffixed(N, h) \in used)))))

\* What DecodeStream makes of an entry's payload in the archive bytes.
DecodeOf(bytes, entry) ==
  DecodeStream(Codec, SubSeq(bytes, entry.offset + 1, Len(bytes)),
               entry.original_size)

\* C12: a successful Concatenate records, for the entries of its sources
\* taken in input order, the names of the rename policy (a name not yet used
\* is kept, a used name N becomes N(j) for the smallest j >= 2 with N(j)
\* unused); the names of the merged header are pairwise distinct; and every
\* renamed entry decodes to what it decoded to in its own source archive.
C12_ConcatenateRenamePolicy ==
  [][(last'.op = "concatenate" /\ last'.ok)
     => Bind(SourceEntries(disk, last'.args), LAMBDA srcs :
        Bind(Entries(disk', ArchiveX), LAMBDA merged :
          /\ Names(merged)
               = RenamePolicy([i \in 1..Len(srcs) |-> srcs[i].entry.name],
                              <<>>)
          /\ DistinctNames(merged)
          /\ \A i \in 1..Len(merged) :
               merged[i].name # srcs[i].entry.name
                 => DecodeOf(disk'.files[ArchiveX], merged[i])
                      = DecodeOf(disk.files[srcs[i].path],
                                 srcs[i].entry)))]_vars

\* C12 witness: a Concatenate merged three entries of the same name, the
\* second and third recorded as N(2) and N(3), and the archive holds two
\* entries that decode to different bytes.
C12_Witness ==
  /\ last.op = "concatenate" /\ last.ok
  /\ Bind(Entries(disk, ArchiveX), LAMBDA merged :
       /\ Len(merged) = 3
       /\ merged[2].name = Suffixed(merged[1].name, 2)
       /\ merged[3].name = Suffixed(merged[1].name, 3)
       /\ \E i, j \in 1..3 :
            DecodeOf(disk.files[ArchiveX], merged[i]).out
              # DecodeOf(disk.files[ArchiveX], merged[j]).out)

(***************************************************************************)
(* Command line.  A command line is described by what the parser sees in   *)
(* it: the set of mode flags, whether -h is given, how many times -f is    *)
(* given, the values of -D and -P (a sequence: empty when the option is    *)
(* absent), whether some token is an option the parser does not know or a  *)
(* value it cannot convert, and the number of positional file names.       *)
(* The value of -D or -P is the long that strtol reads from the token,     *)
(* written in two words: it is hi * 2^32 + lo with lo in -2^31..2^31 - 1.  *)
(***************************************************************************)
Long(hi, lo) == [hi |-> hi, lo |-> lo]

\* ParseInt: static_cast<int> of the long keeps its low 32 bits.
ParseInt(value) == value.lo

Modes == {"create", "list", "extract", "append", "delete", "concatenate"}

\* ValidateHammingDataBits / ValidateHammingParityBits
ValidateHammingDataBits(value) == value > 0 /\ value <= MaxDataBits

ValidateHammingParityBits(value) == value > 0 /\ value <= MaxParityBits

\* nargparse::Parse: fails on an unknown option or an unconvertible value,
\* on a repeated -f, -D or -P (those are single-valued), on a value its
\* validator rejects, and when the required -f is not given exactly once.
Parse(argv) ==
  /\ ~argv.unknown
  /\ argv.archive = 1
  /\ \A i \in 1..Len(argv.data_bits) :
       ValidateHammingDataBits(ParseInt(argv.data_bits[i]))
  /\ \A i \in 1..Len(argv.parity_bits) :
       ValidateHammingParityBits(ParseInt(argv.parity_bits[i]))

CountSelectedModes(argv) == Cardinality(argv.modes)

\* ParseArguments with ValidateModeSelection: the value returned and
\* options.show_help as it leaves it.
ParseArguments(argv) ==
  IF ~Parse(argv) THEN [ok |-> FALSE, show_help |-> TRUE]
  ELSE IF argv.help THEN [ok |-> FALSE, show_help |-> TRUE]
  ELSE IF CountSelectedModes(argv) = 0 THEN [ok |-> FALSE, show_help |-> TRUE]
  ELSE IF CountSelectedModes(argv) > 1 THEN [ok |-> FALSE, show_help |-> TRUE]
  ELSE [ok |-> TRUE, show_help |-> FALSE]

DetectCommand(argv) ==
  IF "create" \in argv.modes THEN "create"
  ELSE IF "list" \in argv.modes THEN "list"
  ELSE IF "extract" \in argv.modes THEN "extract"
  ELSE IF "append" \in argv.modes THEN "append"
  ELSE IF "delete" \in argv.modes THEN "delete"
  ELSE IF "concatenate" \in argv.modes THEN "concatenate"
  ELSE "none"

\* A validation that lets every number of file names through.
ValidateOptionsAnyCount(command, files) ==
  [ok |-> TRUE, show_help |-> FALSE]

ValidateOptionsByMode(command, files) ==
  IF command \in {"create", "append", "delete"} /\ files = 0
  THEN [ok |-> FALSE, show_help |-> TRUE]
  ELSE IF command = "concatenate" /\ files < 2
  THEN [ok |-> FALSE, show_help |-> TRUE]
  ELSE [ok |-> TRUE, show_help |-> FALSE]

\* ParseCommandLine: the value returned and the options it leaves.
ParseCommandLine(argv) ==
  IF ~ParseArguments(argv).ok
  THEN [ok |-> FALSE, show_help |-> ParseArguments(argv).show_help,
        command |-> "none", files |-> 0]
  ELSE IF ~ValidateOptionsByMode(DetectCommand(argv), argv.files).ok
  THEN [ok |-> FALSE,
        show_help |-> ValidateOptionsByMode(DetectCommand(argv),
                                            argv.files).show_help,
        command |-> "none", files |-> 0]
  ELSE [ok |-> TRUE, show_help |-> FALSE, command |-> DetectCommand(argv),
        files |-> argv.files]

\* RunFromOptions: `success` is what the Archiver operation returns.
RunFromOptions(options, success) ==
  IF options.command = "none" THEN 1
  ELSE IF options.command = "concatenate" /\ options.files < 2 THEN 1
  ELSE IF success THEN 0 ELSE 1

\* main: the exit status.
Main(argv, success) ==
  IF ~ParseCommandLine(argv).ok
  THEN IF ParseCommandLine(argv).show_help THEN 0 ELSE 1
  ELSE RunFromOptions(ParseCommandLine(argv), success)

\* Values given to -D and to -P.
DataBitsArgs == {<<>>, <<Long(0, 0)>>, <<Long(0, 8)>>, <<Long(0, 16)>>,
                 <<Long(0, 17)>>, <<Long(1, 8)>>}

ParityBitsArgs == {<<>>, <<Long(0, 0)>>, <<Long(0, 4)>>, <<Long(0, 9)>>,
                   <<Long(-1, 4)>>}

\* Largest number of positional file names on a command line.
MaxFiles == 2

CliInit ==
  /\ \E modes \in {m \in SUBSET Modes : Cardinality(m) <= 2},
        help \in BOOLEAN, archive \in 0..2, unknown \in BOOLEAN,
        data_bits \in DataBitsArgs, parity_bits \in ParityBitsArgs,
        files \in 0..MaxFiles :
       probe = [pc |-> "argv",
                argv |-> [modes |-> modes, help |-> help,
                          archive |-> archive, unknown |-> unknown,
                          data_bits |-> data_bits,
                          parity_bits |-> parity_bits, files |-> files]]
  /\ disk = NoArchives
  /\ last = NoOp
  /\ hamming = DefaultHamming
  /\ flipped = {}

\* The process runs main; the Archiver operation it reaches (if any)
\* succeeds or fails.
CliRun ==
  /\ probe.pc = "argv"
  /\ \E success \in BOOLEAN :
       probe' = [pc |-> "exited", argv |-> probe.argv,
                 ran |-> ParseCommandLine(probe.argv).ok,
                 success |-> success,
                 status |-> Main(probe.argv, success)]
  /\ UNCHANGED archive_vars

CliNext == CliRun

SpecCli == CliInit /\ [][CliNext]_vars

\* The integer the token denotes is in the set S of ints.
Denotes(value, S) == value.hi = 0 /\ value.lo \in S

\* The command line has no argument error: exactly one mode flag, -f given
\* once, -D and -P within their ranges, every token understood, and the
\* positionals the mode requires.
ValidArguments(argv) ==
  /\ Cardinality(argv.modes) = 1
  /\ argv.archive = 1
  /\ ~argv.unknown
  /\ \A i \in 1..Len(argv.data_bits) :
       Denotes(argv.data_bits[i], 1..MaxDataBits)
  /\ \A i \in 1..Len(argv.parity_bits) :
       Denotes(argv.parity_bits[i], 1..MaxParityBits)
  /\ (argv.modes \cap {"create", "append", "delete"} # {}) => argv.files >= 1
  /\ ("concatenate" \in argv.modes) => argv.files >= 2

\* C13: the process exits with status 0 exactly when the requested
\* operation succeeded or help was requested, and with status 1 on every
\* error, argument errors included.
C13_ExitCodes ==
  probe.pc = "exited" =>
    /\ probe.status \in {0, 1}
    /\ probe.status = 0
         <=> \/ probe.argv.help
             \/ ValidArguments(probe.argv) /\ probe.success

\* The fewest positional arguments a mode takes.
MinimumFiles(command) ==
  IF command \in {"create", "append", "delete"} THEN 1
  ELSE IF command = "concatenate" THEN 2
  ELSE 0

\* C21: ParseCommandLine returns success only if exactly one of the six
\* mode flags is set, -f is given exactly once and the positional
\* arguments are at least as many as the mode requires; the command it
\* returns is the mode that was set.
C21_CommandLineAcceptance ==
  (probe.pc = "exited" /\ ParseCommandLine(probe.argv).ok) =>
    /\ Cardinality(probe.argv.modes) = 1
    /\ probe.argv.modes \subseteq Modes
    /\ probe.argv.archive = 1
    /\ probe.argv.modes = {ParseCommandLine(probe.argv).command}
    /\ probe.argv.files >= MinimumFiles(ParseCommandLine(probe.argv).command)
    /\ ParseCommandLine(probe.argv).files = probe.argv.files

\* C26: the command line is accepted only if the integer the -D token
\* denotes lies in [1, 16] and the one the -P token denotes lies in [1, 8];
\* a token that denotes another integer, one beyond the range of int
\* included, is rejected.
C26_HammingParameterRange ==
  (probe.pc = "exited" /\ ParseCommandLine(probe.argv).ok) =>
    /\ \A i \in 1..Len(probe.argv.data_bits) :
         Denotes(probe.argv.data_bits[i], 1..MaxDataBits)
    /\ \A i \in 1..Len(probe.argv.parity_bits) :
         Denotes(probe.argv.parity_bits[i], 1..MaxParityBits)

\* An accepted concatenate with two source archives has run.
C21_Witness ==
  /\ probe.pc = "exited"
  /\ ParseCommandLine(probe.argv).ok
  /\ ParseCommandLine(probe.argv).command = "concatenate"
  /\ probe.argv.files = 2
  /\ probe.ran

\* The header and payload layout of an archive file: the header is valid,
\* the first entry's offset is the header size (3 + 4 bytes and, per entry,
\* 2 + |name| + 24 bytes), each following entry's offset is the previous
\* entry's offset plus its encoded_size, and the file's length is the
\* header size plus the sum of the encoded sizes.
LayoutHolds(bytes) ==
  Bind(ReadArchiveHeader(bytes), LAMBDA hdr :
    /\ hdr.ok
    /\ hdr.pos = 7 + SumEncodedSizes([i \in 1..Len(hdr.entries) |->
                       [encoded_size |-> 26 + Len(hdr.entries[i].name)]])
    /\ hdr.entries # <<>> => hdr.entries[1].offset = hdr.pos
    /\ \A i \in 1..(Len(hdr.entries) - 1) :
         hdr.entries[i + 1].offset
           = hdr.entries[i].offset + hdr.entries[i].encoded_size
    /\ Len(bytes) = hdr.pos + SumEncodedSizes(hdr.entries))

\* C14: every archive file left by a sequence of Create, Append, Delete and
\* Concatenate operations (Concatenate over archives such sequences
\* produced) has the layout above.
C14_LayoutInvariant ==
  \A archive_path \in {ArchiveX, ArchiveY, ArchiveZ} :
    IsRegularFile(disk, archive_path)
      => LayoutHolds(disk.files[archive_path])

\* C14 witness: Concatenate has written the archive from itself and another
\* archive, three entries in all.
C14_Witness ==
  /\ last.op = "concatenate" /\ last.ok
  /\ \E i \in 1..Len(last.args) : last.args[i] = ArchiveX
  /\ Len(Entries(disk, ArchiveX)) = 3

(***************************************************************************)
(* Failure specification: the session of the Concatenate specification,    *)
(* with one source archive, in which an environment failure may strike     *)
(* each Append, Delete and Concatenate.                                    *)
(***************************************************************************)
Faults == {NoFault, "open", "header_write", "copy", "encode", "rename"}

Rewrites == {"append", "delete", "concatenate"}

FaultNext ==
  \/ CreateSourceAct({ArchiveY}, {<<Fa>>})
  \/ CreateAct({<<Fa>>, <<Fa, Fb>>}, {NoFault})
  \/ AppendAct({<<Fb>>, <<Fm>>}, Faults)
  \/ DeleteAct({<<<<97>>>>, <<<<109>>>>}, Faults)
  \/ ConcatAct({<<ArchiveX, ArchiveY>>, <<ArchiveY, ArchiveY>>,
                <<ArchiveY, ArchiveW>>}, Faults)

SpecFault == ConcatInit /\ [][FaultNext]_vars

\* C16: whenever Append, Delete or Concatenate returns failure, at whatever
\* step, the file at the archive path still exists if it existed before the
\* call and is byte-identical to its state before the call.
C16_FailureLeavesArchive ==
  [][(last'.op \in Rewrites /\ ~last'.ok /\ IsRegularFile(disk, ArchiveX))
     => /\ IsRegularFile(disk', ArchiveX)
        /\ disk'.files[ArchiveX] = disk.files[ArchiveX]]_vars

\* The failures Append, Delete and Concatenate report after they have
\* opened the temp file.
AfterTempOpen == {"header_write", "copy", "encode", "rename",
                  "open_source", "header"}

\* C17: whenever Append, Delete or Concatenate returns failure after it has
\* opened <archive>.tmp, the temp file does not exist when the operation
\* returns.
C17_TempFileCleanup ==
  [][(/\ last'.op \in Rewrites /\ ~last'.ok
      /\ \/ last'.err \in {"header_write", "copy", "encode", "rename"}
         \/ last'.op = "concatenate" /\ last'.err \in AfterTempOpen)
     => ~Exists(disk', TempPath(ArchiveX))]_vars

(***************************************************************************)
(* Writer specification: one Append, Delete or Concatenate on "X" runs     *)
(* step by step, in the order of its file-system calls: it opens the temp  *)
(* file, writes the header, writes the payload and closes the streams,     *)
(* calls fs::remove on the archive path, and calls fs::rename.  A reader   *)
(* may open the archive path between any two steps.  `probe` holds the     *)
(* writer's position, the archive it found (`before`) and the archive it   *)
(* is staging (`image`).                                                   *)
(***************************************************************************)
\* What is found at a path: whether a regular file is there, and its bytes.
FileAt(d, path) ==
  IF IsRegularFile(d, path) THEN [found |-> TRUE, bytes |-> d.files[path]]
  ELSE [found |-> FALSE, bytes |-> <<>>]

\* The operation as one call, without failure.
Rewrite(op, args) ==
  IF op = "append" THEN ArchiverAppend(disk, ArchiveX, args, Codec, NoFault)
  ELSE IF op = "delete" THEN Delete(disk, ArchiveX, args, NoFault)
  ELSE RunConcatenate(disk, ArchiveX, args, NoFault)

\* The operation passes its checks, removes a stale temp file and opens the
\* temp file for writing.
WriterBegin(op, lists) ==
  /\ probe.pc = "off"
  /\ \E args \in lists :
       /\ op = "append"
            => Len(Entries(disk, ArchiveX)) + Len(args) <= MaxEntries
       /\ op = "concatenate" => TotalEntries(disk, args) <= MaxMerged
       /\ \E res \in {Rewrite(op, args)} :
            /\ res.ok
            /\ probe' = [pc |-> "temp_open", op |-> op, args |-> args,
                         before |-> FileAt(disk, ArchiveX),
                         image |-> FileAt(res.disk, ArchiveX)]
       /\ disk' = WriteFile(disk, TempPath(ArchiveX), <<>>)
  /\ UNCHANGED <<last, hamming, flipped>>

\* WriteArchiveHeader on the temp stream.
WriterHeader ==
  /\ probe.pc = "temp_open"
  /\ disk' = WriteFile(disk, TempPath(ArchiveX),
                       SubSeq(probe.image.bytes, 1,
                              ReadArchiveHeader(probe.image.bytes).pos))
  /\ probe' = [probe EXCEPT !.pc = "header_written"]
  /\ UNCHANGED <<last, hamming, flipped>>

\* The copy and encode loops, then out.close() and in.close().
WriterPayload ==
  /\ probe.pc = "header_written"
  /\ disk' = WriteFile(disk, TempPath(ArchiveX), probe.image.bytes)
  /\ probe' = [probe EXCEPT !.pc = "closed"]
  /\ UNCHANGED <<last, hamming, flipped>>

\* fs::remove(archive_path_, ec)
WriterRemove ==
  /\ probe.pc = "closed"
  /\ disk' = RemoveFile(disk, ArchiveX)
  /\ probe' = [probe EXCEPT !.pc = "removed"]
  /\ UNCHANGED <<last, hamming, flipped>>

\* fs::rename(temp_path, archive_path_, ec); the operation returns true.
WriterRename ==
  /\ probe.pc = "removed"
  /\ disk' = RenameFile(disk, TempPath(ArchiveX), ArchiveX)
  /\ last' = [op |-> probe.op, archive |-> ArchiveX, args |-> probe.args,
              fault |-> NoFault, ok |-> TRUE, err |-> "", out |-> <<>>,
              after_create |-> FALSE]
  /\ probe' = Idle
  /\ UNCHANGED <<hamming, flipped>>

\* Another process opens the archive path and reads the file it finds.
ReaderOpen ==
  /\ last.op # "read"
  /\ last' = [op |-> "read", ok |-> IsRegularFile(disk, ArchiveX),
              seen |-> FileAt(disk, ArchiveX),
              during |-> probe]
  /\ UNCHANGED <<disk, hamming, flipped, probe>>

WriterNext ==
  \/ (probe.pc = "off" /\ CreateSourceAct({ArchiveY}, {<<Fa>>}))
  \/ (probe.pc = "off" /\ CreateAct({<<Fa>>, <<Fa, Fb>>}, {NoFault}))
  \/ WriterBegin("append", {<<Fb>>})
  \/ WriterBegin("delete", {<<<<97>>>>})
  \/ WriterBegin("concatenate", {<<ArchiveX, ArchiveY>>,
                                 <<ArchiveY, ArchiveY>>})
  \/ WriterHeader
  \/ WriterPayload
  \/ WriterRemove
  \/ WriterRename
  \/ ReaderOpen

SpecWriter == ConcatInit /\ [][WriterNext]_vars

\* C18: a reader that opens the archive path while an Append, Delete or
\* Concatenate is running finds either the complete archive of before the
\* operation or the complete archive the operation produces; while the
\* operation runs on an existing archive, the archive path is never absent
\* and never holds anything but one of those two.
C18_ReaderWriterAtomicity ==
  /\ (last.op = "read" /\ last.during.pc # "off")
       => last.seen \in {last.during.before, last.during.image}
  /\ (probe.pc # "off" /\ probe.before.found)
       => FileAt(disk, ArchiveX) \in {probe.before, probe.image}

(***************************************************************************)
(* Header specification: the session creates the archive, the medium       *)
(* damages its header once (a bit of the signature flips, the file is cut  *)
(* short inside the header, or the first name length grows beyond the      *)
(* file), and List, Extract, Append and Delete are run on it.              *)
(***************************************************************************)
Pristine ==
  /\ IsRegularFile(disk, ArchiveX)
  /\ ReadArchiveHeader(disk.files[ArchiveX]).ok

\* One bit of the three signature bytes flips.
FlipSignatureBit ==
  /\ Pristine
  /\ \E b \in 0..23 :
       /\ disk' = [disk EXCEPT !.files[ArchiveX][(b \div 8) + 1] =
                                 XorBit(@, b % 8)]
       /\ flipped' = {b}
       /\ last' = [op |-> "flip", ok |-> TRUE, kept |-> 0]
  /\ UNCHANGED <<hamming, probe>>

\* The file is cut to `kept` bytes, fewer than its header has.
TruncateHeader ==
  /\ Pristine
  /\ \E kept \in 0..(ReadArchiveHeader(disk.files[ArchiveX]).pos - 1) :
       /\ disk' = [disk EXCEPT !.files[ArchiveX] = SubSeq(@, 1, kept)]
       /\ last' = [op |-> "truncate", ok |-> TRUE, kept |-> kept]
  /\ UNCHANGED <<hamming, flipped, probe>>

\* The low byte of the first entry's name length becomes 255, more than the
\* file has left.
GrowNameLength ==
  /\ Pristine
  /\ Entries(disk, ArchiveX) # <<>>
  /\ disk' = [disk EXCEPT !.files[ArchiveX][8] = 255]
  /\ last' = [op |-> "grow", ok |-> TRUE, kept |-> 0]
  /\ UNCHANGED <<hamming, flipped, probe>>

HeaderNext ==
  \/ (~Exists(disk, ArchiveX) /\ CreateAct(DamageLists, {NoFault}))
  \/ FlipSignatureBit
  \/ TruncateHeader
  \/ GrowNameLength
  \/ ListAct
  \/ ExtractAct({<<>>, <<<<97>>>>}, {NoFault})
  \/ AppendAct({<<Fb>>}, {NoFault})
  \/ DeleteAct({<<<<97>>>>}, {NoFault})

SpecHeader == ArchiveInit /\ [][HeaderNext]_vars

\* C20: ReadArchiveHeader reports an error whenever the first three bytes
\* are not exactly "HAF", and whenever the file ends before the file count,
\* a name length, a name or one of the three 64-bit fields is complete (a
\* name length that exceeds the remaining input included); List, Extract,
\* Append and Delete then fail and leave every file as it was.
C20_HeaderValidation ==
  [][/\ (/\ IsRegularFile(disk', ArchiveX)
         /\ \/ Len(disk'.files[ArchiveX]) < 3
            \/ SubSeq(disk'.files[ArchiveX], 1, 3) # <<72, 65, 70>>)
          => ~ReadArchiveHeader(disk'.files[ArchiveX]).ok
     /\ last'.op \in {"truncate", "grow"}
          => ~ReadArchiveHeader(disk'.files[ArchiveX]).ok
     /\ (/\ last'.op \in {"list", "extract", "append", "delete"}
         /\ IsRegularFile(disk, ArchiveX)
         /\ ~ReadArchiveHeader(disk.files[ArchiveX]).ok)
          => (~last'.ok /\ disk' = disk)]_vars

\* C20 witness: an Append failed on an archive whose signature and file
\* count are intact and whose header is cut short inside an entry.
C20_Witness ==
  /\ last.op = "append" /\ ~last.ok /\ last.err = "header"
  /\ Len(disk.files[ArchiveX]) > 7
  /\ SubSeq(disk.files[ArchiveX], 1, 3) = <<72, 65, 70>>
  /\ flipped = {}

(***************************************************************************)
(* Rebuild specification: the archive is created once, the medium flips    *)
(* bits of its payload region right after, and later invocations, run with *)
(* Hamming options of the caller's choice, append to it and delete from    *)
(* it.                                                                     *)
(***************************************************************************)
\* Largest number of payload bits the medium flips.
MaxRebuildFlips == 1

RebuildLists == {<<Fa>>, <<Fb>>, <<Fa, Fb>>}

\* The medium flips a payload bit of the archive as it was created.
DamageCreated ==
  /\ last.op \in {"create", "flip"}
  /\ Cardinality(flipped) < MaxRebuildFlips
  /\ FlipPayloadBit

\* The caller gives other -D and -P values to the invocations that follow.
ChooseHamming ==
  /\ IsRegularFile(disk, ArchiveX)
  /\ last.op \in {"create", "flip"}
  /\ \E kr \in HammingChoices :
       /\ kr # <<hamming.data_bits, hamming.parity_bits>>
       /\ hamming' = [data_bits |-> kr[1], parity_bits |-> kr[2]]
  /\ UNCHANGED <<disk, last, flipped, probe>>

RebuildNext ==
  \/ (~Exists(disk, ArchiveX) /\ CreateAct(RebuildLists, {NoFault}))
  \/ DamageCreated
  \/ ChooseHamming
  \/ AppendAct({<<Fa>>, <<Fb>>}, {NoFault})
  \/ DeleteAct({<<<<97>>>>, <<<<98>>>>, <<<<97>>, <<98>>>>}, {NoFault})

SpecRebuild == ArchiveInit /\ [][RebuildNext]_vars

\* The encoded_size bytes an archive holds at an entry's offset.
PayloadAt(bytes, entry) ==
  SubSeq(bytes, entry.offset + 1, entry.offset + entry.encoded_size)

\* The entries of the old archive that a rebuild retains.
Retained(old_entries, op, args) ==
  IF op = "append" THEN old_entries ELSE KeepEntries(old_entries, args)

\* C23: after a successful Append or Delete, every entry retained from the
\* old archive has, at its new offset in the new archive, exactly the
\* encoded_size bytes it had at its old offset in the old archive,
\* corrupted bits included and whatever (k, r) the rebuilding invocation is
\* given.
C23_VerbatimPayloadCopy ==
  [][(last'.op \in {"append", "delete"} /\ last'.ok) =>
       LET retained == Retained(Entries(disk, ArchiveX), last'.op, last'.args)
           rebuilt == Entries(disk', ArchiveX)
       IN /\ Len(rebuilt) >= Len(retained)
          /\ \A i \in 1..Len(retained) :
               /\ rebuilt[i].name = retained[i].name
               /\ rebuilt[i].encoded_size = retained[i].encoded_size
               /\ rebuilt[i].offset + rebuilt[i].encoded_size
                    <= Len(disk'.files[ArchiveX])
               /\ PayloadAt(disk'.files[ArchiveX], rebuilt[i])
                    = PayloadAt(disk.files[ArchiveX], retained[i])]_vars

\* The payloads the codecs of the session give the input files.
CleanPayloads ==
  {EncodeStream(HammingCodec(kr[1], kr[2]), content) :
     kr \in HammingChoices, content \in FileContents}

\* C23 witness: a Delete run with other (k, r) than the archive was created
\* with has kept an entry whose payload holds a flipped bit.
C23_Witness ==
  /\ last.op = "delete" /\ last.ok
  /\ Len(Entries(disk, ArchiveX)) = 1
  /\ Entries(disk, ArchiveX)[1].encoded_size
       # CalculateEncodedSize(Codec, Entries(disk, ArchiveX)[1].original_size)
  /\ PayloadAt(disk.files[ArchiveX], Entries(disk, ArchiveX)[1])
       \notin CleanPayloads

(***************************************************************************)
(* Alignment specification: two source archives are created, the medium    *)
(* may leave a stray byte after the last payload of a source, and          *)
(* Concatenate merges sources into the archive.                            *)
(***************************************************************************)
AlignLists == {<<ArchiveY, ArchiveZ>>, <<ArchiveZ, ArchiveY>>,
               <<ArchiveY, ArchiveY>>, <<ArchiveX, ArchiveY>>}

\* A byte is added after the last payload of a source archive.
PadSource ==
  /\ \E archive_path \in {ArchiveY, ArchiveZ} :
       /\ IsRegularFile(disk, archive_path)
       /\ LayoutHolds(disk.files[archive_path])
       /\ disk' = [disk EXCEPT !.files[archive_path] = Append(@, 0)]
  /\ last' = [op |-> "pad", ok |-> TRUE]
  /\ UNCHANGED <<hamming, flipped, probe>>

AlignNext ==
  \/ CreateSourceAct({ArchiveY}, {<<Fa>>, <<Fa, Fb>>})
  \/ CreateSourceAct({ArchiveZ}, {<<Ea>>, <<Fb, Ea>>})
  \/ PadSource
  \/ ConcatAct(AlignLists, {NoFault})

SpecAlign == ConcatInit /\ [][AlignNext]_vars

\* C24: when every source archive has its entries one after the other
\* right after its header and nothing after its last payload, a successful
\* Concatenate leaves, for every entry of the merged archive, at the
\* entry's new offset the encoded_size bytes the entry has in its source.
C24_ConcatenatePayloadAlignment ==
  [][(/\ last'.op = "concatenate" /\ last'.ok
      /\ \A i \in 1..Len(last'.args) :
           LayoutHolds(disk.files[last'.args[i]]))
     => Bind(SourceEntries(disk, last'.args), LAMBDA srcs :
        Bind(Entries(disk', ArchiveX), LAMBDA merged :
          /\ Len(merged) = Len(srcs)
          /\ \A i \in 1..Len(merged) :
               /\ merged[i].encoded_size = srcs[i].entry.encoded_size
               /\ merged[i].offset + merged[i].encoded_size
                    <= Len(disk'.files[ArchiveX])
               /\ PayloadAt(disk'.files[ArchiveX], merged[i])
                    = PayloadAt(disk.files[srcs[i].path],
                                srcs[i].entry)))]_vars

\* C24 witness: Concatenate has merged two well-laid-out sources with
\* entries of different payloads, three entries in all.
C24_Witness ==
  /\ last.op = "concatenate" /\ last.ok
  /\ last.args = <<ArchiveZ, ArchiveY>>
  /\ LayoutHolds(disk.files[ArchiveY])
  /\ LayoutHolds(disk.files[ArchiveZ])
  /\ Len(Entries(disk, ArchiveX)) = 3
  /\ \E i, j \in 1..3 :
       PayloadAt(disk.files[ArchiveX], Entries(disk, ArchiveX)[i])
         # PayloadAt(disk.files[ArchiveX], Entries(disk, ArchiveX)[j])

(***************************************************************************)
(* Receive specification: DecodeBlock is given an arbitrary word of        *)
(* k + r bits, as read from a damaged medium.                              *)
(***************************************************************************)
ReceiveInit ==
  /\ \E k \in 1..MaxK, r \in 1..MaxR :
       \E codeword \in 0..(2 ^ (k + r) - 1) :
         probe = [pc |-> "received", k |-> k, r |-> r, codeword |-> codeword]
  /\ disk = NoArchives
  /\ last = NoOp
  /\ hamming = DefaultHamming
  /\ flipped = {}

\* HammingCodec::DecodeBlock on the received word.
ReceiveDecode ==
  /\ probe.pc = "received"
  /\ probe' = [pc |-> "received_decoded", k |-> probe.k, r |-> probe.r,
               codeword |-> probe.codeword,
               result |-> DecodeBlock(HammingCodec(probe.k, probe.r),
                                      probe.codeword)]
  /\ UNCHANGED archive_vars

ReceiveNext == ReceiveDecode

SpecReceive == ReceiveInit /\ [][ReceiveNext]_vars

\* The syndrome DecodeBlock computes again after it flipped position
\* `syndrome` of the codeword.
VerifySyndrome(codeword, total_bits, syndrome) ==
  CalculateSyndrome(XorBit(codeword, syndrome - 1), total_bits)

\* C25 as stated: for some (k, r) and some received codeword the first
\* syndrome s satisfies 0 < s <= n and the syndrome recomputed after
\* flipping position s is not zero, so that the re-check raises the flag.
C25_RecheckCatchesSome ==
  probe.pc = "received" =>
    \E k \in 1..MaxK, r \in 1..MaxR :
      \E codeword \in 0..(2 ^ (k + r) - 1) :
        Bind(CalculateSyndrome(codeword, k + r), LAMBDA s :
          /\ 0 < s
          /\ s <= k + r
          /\ VerifySyndrome(codeword, k + r, s) # 0)

\* C25 amended: the re-check of DecodeBlock never raises the flag: for
\* every (k, r) and every received codeword whose first syndrome s
\* satisfies 0 < s <= n, the syndrome recomputed after flipping position s
\* is zero, and DecodeBlock flags an error exactly when s > n.
C25_RecheckNeverFires ==
  probe.pc = "received_decoded" =>
    Bind(CalculateSyndrome(probe.codeword, probe.k + probe.r), LAMBDA s :
      /\ (0 < s /\ s <= probe.k + probe.r)
           => VerifySyndrome(probe.codeword, probe.k + probe.r, s) = 0
      /\ probe.result.has_error <=> s > probe.k + probe.r)

\* C25 witness: with parameters such that 2^r < k + r + 1, DecodeBlock has
\* flipped a position of a word that is not a codeword and has returned
\* without an error.
C25_Witness ==
  /\ probe.pc = "received_decoded"
  /\ ~WellFormed(probe.k, probe.r)
  /\ CalculateSyndrome(probe.codeword, probe.k + probe.r)
       \in 1..(probe.k + probe.r)
  /\ ~probe.result.has_error

(***************************************************************************)
(* Foreign-archive specification: the archive file comes from elsewhere.   *)
(* Its header is valid and its payloads are encoded with the session's     *)
(* codec, and its names are whatever its author recorded: "a", "s/a" or    *)
(* "../a".                                                                 *)
(***************************************************************************)
ForeignNames == {<<97>>, <<115, 47, 97>>, <<46, 46, 47, 97>>}

ForeignNameLists ==
  {<<n>> : n \in ForeignNames} \cup {<<n, m>> : n, m \in ForeignNames}

\* The entries of a foreign archive: each name with the payload of <<165>>.
ForeignEntries(names, c) ==
  [i \in 1..Len(names) |->
     FileEntry(names[i], <<>>, 1, CalculateEncodedSize(c, 1), 0)]

RECURSIVE ForeignPayloads(_, _)
ForeignPayloads(entries, c) ==
  IF entries = <<>> THEN <<>>
  ELSE EncodeStream(c, <<165>>) \o ForeignPayloads(Tail(entries), c)

\* A foreign archive is put at the archive path.
ReceiveArchive ==
  /\ ~Exists(disk, ArchiveX)
  /\ \E names \in ForeignNameLists :
       disk' = WriteFile(disk, ArchiveX,
                 WriteArchiveHeader(
                   AssignOffsets(ForeignEntries(names, Codec),
                     CalculateHeaderSize(ForeignEntries(names, Codec))))
                 \o ForeignPayloads(ForeignEntries(names, Codec), Codec))
  /\ last' = [op |-> "receive", ok |-> TRUE]
  /\ UNCHANGED <<hamming, flipped, probe>>

ForeignNext ==
  \/ ReceiveArchive
  \/ ListAct
  \/ ExtractAct({<<>>} \cup {<<n>> : n \in ForeignNames}, {NoFault})

SpecForeign == ArchiveInit /\ [][ForeignNext]_vars

\* The files a step creates or rewrites, and the directories it creates.
Touched(d, e) ==
  {path \in DOMAIN e.files :
     ~IsRegularFile(d, path) \/ d.files[path] # e.files[path]}
  \cup (e.dirs \ d.dirs)

\* C27: for every archive with a valid header, names with path separators
\* or `..` components included, every file Extract creates or truncates and
\* every directory it creates lies directly in the working directory: its
\* path is a basename.
C27_ExtractStaysInWorkingDirectory ==
  [][last'.op = "extract" =>
       \A path \in Touched(disk, disk') : ~HasParentPath(path)]_vars

====
